---- MODULE Spec2Model ----
(***************************************************************************)
(* Model of the offline-first cloud synchronisation engine of baselineapp  *)
(* (CloudSyncGate.tsx, app.store.ts, pendingSync.service,                  *)
(* storage.service).                                                       *)
(*                                                                         *)
(* Each browser context (tab) runs one CloudSyncGate component with its    *)
(* own in-memory zustand store; all contexts share one localStorage, one   *)
(* authentication session and one remote row per identity.  Every `await`  *)
(* of the source is a step boundary: the code between two awaits runs      *)
(* atomically inside its context (single-threaded event loop).  The two    *)
(* localStorage accesses of acquireSyncLock (getItem, setItem) are atomic  *)
(* inside one context but may interleave with another context's accesses.  *)
(***************************************************************************)
EXTENDS Integers, Sequences, FiniteSets, TLC

(***************************************************************************)
(* Bounds of the model                                                     *)
(***************************************************************************)
\* number of environment events in a run: local mutations, connectivity
\* transitions, failing remote calls, authentication events, clock advances
MaxEvents == 2
\* the same, in the runs with two contexts
MaxTabEvents == 1
\* milliseconds per clock advance
TickMs == 5000
\* the number of calls of one kind (initForSession, pushSnapshot by one
\* trigger, the completion upsert) a context has in flight together
MaxCalls == 2

(***************************************************************************)
(* Program constants                                                       *)
(***************************************************************************)
SYNC_LOCK_TIMEOUT == 5000
\* 10 * 60 * 1000, the age beyond which a pending OTP verification is abandoned
PENDING_OTP_MAX_AGE == 600000
SCHEMA_VERSION == 1
\* 120_000, the time a SIGNED_OUT is ignored after an OAuth sign-in started
OAUTH_TRANSITION_WINDOW == 120000

(***************************************************************************)
(* Optional values: None is JavaScript's undefined / null, Some(x) a value *)
(***************************************************************************)
None == << >>
Some(x) == << x >>
IsSome(o) == o # << >>
Get(o) == o[1]
\* a ?? d
OrElse(o, d) == IF o = << >> THEN d ELSE o[1]

Ctx == {"tabA", "tabB"}
CloudStatus == {"idle", "syncing", "ok", "offline", "error"}
CloudMode == {"guest", "cloud"}
\* who is signed in: nobody, an anonymous user, an authenticated user
Session == {"none", "anon", "auth"}
\* the calls of one kind that are in flight together are told apart by a slot
CallSlot == 1..MaxCalls
\* the triggers that call pushSnapshot outside initForSession
Trigger == {"drain", "retry", "local"}
\* a pushSnapshot call in flight: its trigger and its slot
PushSlot == Trigger \X CallSlot

(***************************************************************************)
(* AppState documents (types/app.types AppState).  rev is a ghost field:   *)
(* the serial number of the local mutation that produced the content.      *)
(***************************************************************************)
defaultSecurity == [biometricEnabled |-> FALSE, lastAuthTimestamp |-> None]

Doc(ws, sec, rev) ==
  [schemaVersion |-> SCHEMA_VERSION, welcomeSeen |-> ws, security |-> sec, rev |-> rev]

\* { schemaVersion: 1 }
emptyDoc == Doc(None, None, 0)

\* app.store.ts defaultState
defaultState == Doc(None, Some(defaultSecurity), 0)

(***************************************************************************)
(* State                                                                   *)
(***************************************************************************)
VARIABLES
  online,   \* the device's reachability (getNetworkStatus, navigator.onLine)
  now,      \* Date.now() in milliseconds
  session,  \* the authentication provider's current session
  remote,   \* the remote authority: one optional document per identity
  ls,       \* the localStorage shared by all contexts
  tab,      \* per context: the zustand store, the refs and the suspended tasks
  used,     \* the number of environment events so far
  limit,    \* the number of environment events the run may take
  ret       \* the last call of a storage function made on its own, with its result

vars == << online, now, session, remote, ls, tab, used, limit, ret >>

(***************************************************************************)
(* Failure signals and the failure classifier.  A message is abstracted to *)
(* the set of the classifier's patterns that its lower-cased text contains.*)
(***************************************************************************)
Err(msg, status) == [msg |-> msg, status |-> status]
Includes(msg, pattern) == pattern \in msg

\* variant: only the connectivity patterns of the message are looked at (drops
\* lines 32-35)
isNetworkOrServerError_networkOnly(err, navigatorOnLine) ==
  \/ ~navigatorOnLine
  \/ Includes(err.msg, "failed to fetch")
  \/ Includes(err.msg, "err_name_not_resolved")
  \/ Includes(err.msg, "networkerror")
  \/ Includes(err.msg, "timeout")
  \/ Includes(err.msg, "econnrefused")
  \/ Includes(err.msg, "econnreset")
  \/ (err.status >= 500 /\ err.status < 600)

isNetworkOrServerError(err, navigatorOnLine) ==
  \/ ~navigatorOnLine
  \/ Includes(err.msg, "failed to fetch")
  \/ Includes(err.msg, "err_name_not_resolved")
  \/ Includes(err.msg, "networkerror")
  \/ Includes(err.msg, "internal server error")
  \/ Includes(err.msg, "bad gateway")
  \/ Includes(err.msg, "service unavailable")
  \/ Includes(err.msg, "gateway timeout")
  \/ Includes(err.msg, "timeout")
  \/ Includes(err.msg, "econnrefused")
  \/ Includes(err.msg, "econnreset")
  \/ (err.status >= 500 /\ err.status < 600)

\* lines 25-26: the failure signal as thrown.  status and statusCode are
\* absent (None), a number or a string of digits; the first that is present is
\* taken (a ?? b ?? 0) and counts only when typeof gives "number"
Num(n) == << [number |-> TRUE, n |-> n] >>
Str(n) == << [number |-> FALSE, n |-> n] >>

errOf(signal) ==
  LET status == IF IsSome(signal.status) THEN signal.status
                ELSE IF IsSome(signal.statusCode) THEN signal.statusCode
                ELSE Num(0)
  IN Err(signal.message, IF Get(status).number THEN Get(status).n ELSE 0)

\* the failures a remote call is given in the model
ErrFetch == Err({"failed to fetch"}, 0)
ErrUnavailable == Err({}, 503)
ErrRejected == Err({}, 400)
RemoteErrors == {ErrFetch, ErrUnavailable, ErrRejected}
\* the QuotaExceededError of a localStorage.setItem on a full storage
ErrQuota == Err({}, 0)

(***************************************************************************)
(* pendingSync.service: the Pending-Change Buffer, one localStorage key.   *)
(* The key's content is kept as the sequence of documents stored under it. *)
(***************************************************************************)
\* variant: the write adds to the key's content instead of replacing it
setPendingSnapshot_appends(l, state) == [l EXCEPT !.pend = Append(l.pend, state)]

\* l.full: localStorage.setItem throws QuotaExceededError, which the try/catch
\* of the function swallows
setPendingSnapshot(l, state) == IF l.full THEN l ELSE [l EXCEPT !.pend = << state >>]

getPendingSnapshot(l) == IF l.pend = << >> THEN None ELSE Some(l.pend[Len(l.pend)])

clearPendingSnapshot(l) == [l EXCEPT !.pend = << >>]

hasPendingSnapshot(l) == IsSome(getPendingSnapshot(l))

(***************************************************************************)
(* storage.service: the Durable Local Store                                *)
(***************************************************************************)
saveState(l, state) == IF l.full THEN l ELSE [l EXCEPT !.state = Some(state)]

clearState(l) == [l EXCEPT !.state = None]

\* A stored item is the text under STORAGE_KEY.  Text that JSON.parse rejects
\* is the record unparsable; any other text is the record it parses to, whose
\* schemaVersion field may be missing.
unparsable == [garbage |-> TRUE]

\* !parsed.schemaVersion: undefined and 0 are falsy
truthySchemaVersion(parsed) ==
  "schemaVersion" \in DOMAIN parsed /\ parsed.schemaVersion # 0

loadState(l) ==
  IF l.state = None THEN None
  ELSE IF Get(l.state) = unparsable THEN None
  ELSE IF ~truthySchemaVersion(Get(l.state)) THEN None
  ELSE l.state

(***************************************************************************)
(* The cross-context lock.  LockHeld is the test acquireSyncLock makes on  *)
(* the record it has read, at the clock value it has read.                 *)
(***************************************************************************)
LockHeld(existingLock, t) ==
  IsSome(existingLock) /\ t - Get(existingLock) < SYNC_LOCK_TIMEOUT

\* acquireSyncLock as a function: the value it returns and the record it
\* asks setItem to write.  localStorage answers every getItem and removeItem;
\* setItem throws while the storage is full (l.full).
acquireSyncLock(existingLock, t) ==
  IF LockHeld(existingLock, t) THEN [acquired |-> FALSE, lock |-> existingLock]
  ELSE [acquired |-> TRUE, lock |-> Some(t)]

\* variant: the release leaves the record in place
releaseSyncLock_keeps(l) == l

releaseSyncLock(l) == [l EXCEPT !.lock = None]

\* lines 56-59: the write of the record; when setItem throws the catch block
\* returns true with nothing written
writeSyncLock(l, r) == IF r.acquired /\ ~l.full THEN [l EXCEPT !.lock = r.lock] ELSE l

(***************************************************************************)
(* app.store.ts: operations of the in-memory store.  A world w is the pair *)
(* of one context's record (w.t) and the shared localStorage (w.ls).       *)
(***************************************************************************)
World(t, l) == [t |-> t, ls |-> l]

getSnapshot(t) == Doc(Some(t.welcomeSeen), t.security, t.rev)

\* the persisted fields of get(), as saveState(get()) serialises them: the
\* whole store is written, so the record carries the schemaVersion the store
\* holds (the one create() spread from the hydrated record, until an operation
\* sets it to 1) and cloudSyncReady once setCloudSyncReady() has set it (an
\* undefined field is not serialised).  The
\* other fields of the store in the record (cloudMode, cloudStatus, user,
\* sessionExpired, ...) are overridden by create() and are left out.
storeState(t) ==
  IF t.cloudSyncReady
  THEN [schemaVersion |-> t.schemaVersion, welcomeSeen |-> Some(t.welcomeSeen),
        security |-> t.security, rev |-> t.rev, cloudSyncReady |-> TRUE]
  ELSE [schemaVersion |-> t.schemaVersion, welcomeSeen |-> Some(t.welcomeSeen),
        security |-> t.security, rev |-> t.rev]

\* the snapshot fields of a stored record
StoredDoc(state) ==
  IF state = None THEN None
  ELSE LET r == Get(state)
       IN Some([f \in DOMAIN r \ {"cloudSyncReady"} |-> r[f]])

\* the key app.welcomeSeen.v1: setItem("1") for true, removeItem for false,
\* inside a try/catch
setSeenKey(l, v) == IF v /\ l.full THEN l ELSE [l EXCEPT !.seen = v]

setWelcomeSeen(w, v) ==
  LET t1 == [w.t EXCEPT !.welcomeSeen = v]
  IN World(t1, saveState(setSeenKey(w.ls, v), storeState(t1)))

toggleBiometricAuth(w) ==
  LET old == w.t.security
      sec == [biometricEnabled |-> ~(IF IsSome(old) THEN Get(old).biometricEnabled ELSE FALSE),
              lastAuthTimestamp |-> IF IsSome(old) THEN Get(old).lastAuthTimestamp ELSE None]
      t1 == [w.t EXCEPT !.schemaVersion = SCHEMA_VERSION, !.security = Some(sec)]
  IN World(t1, saveState(w.ls, storeState(t1)))

updateLastAuthTimestamp(w, t) ==
  LET old == w.t.security
      sec == [biometricEnabled |-> IF IsSome(old) THEN Get(old).biometricEnabled ELSE FALSE,
              lastAuthTimestamp |-> Some(t)]
      t1 == [w.t EXCEPT !.schemaVersion = SCHEMA_VERSION, !.security = Some(sec)]
  IN World(t1, saveState(w.ls, storeState(t1)))

replaceAllData(w, data) ==
  LET l1 == saveState(w.ls, [data EXCEPT !.schemaVersion = SCHEMA_VERSION])
      l2 == IF IsSome(data.welcomeSeen) THEN setSeenKey(l1, Get(data.welcomeSeen)) ELSE l1
      t1 == [w.t EXCEPT !.schemaVersion = SCHEMA_VERSION,
                        !.welcomeSeen = OrElse(data.welcomeSeen, FALSE),
                        !.security = Some(OrElse(data.security, defaultSecurity)),
                        !.rev = data.rev]
  IN World(t1, l2)

(***************************************************************************)
(* CloudSyncGate.tsx: the debounce effect.  React runs it after a step in  *)
(* which welcomeSeen or the security object changed; it reads cloudMode    *)
(* and initializedRef as they are at the end of that step and, when both   *)
(* allow, starts checkNetworkAndPush (suspended on getNetworkStatus).      *)
(***************************************************************************)
\* checking counts the getNetworkStatus() calls not yet answered: every run of
\* the effect starts one, the cleanup of the previous run does not cancel it.
localChangeEffect(t) ==
  IF t.cloudMode = "cloud" /\ t.initializedRef THEN [t EXCEPT !.checking = @ + 1] ELSE t

\* securitySet: the step assigned a new security object
rendered(before, after, securitySet) ==
  IF securitySet \/ before.welcomeSeen # after.welcomeSeen
  THEN localChangeEffect(after) ELSE after

(***************************************************************************)
(* Initial state: a fresh installation, one context open                   *)
(***************************************************************************)
idleSlots == [p \in PushSlot |-> "idle"]
noSnaps == [p \in PushSlot |-> None]
\* no initForSession call in flight
idleCalls == [k \in CallSlot |-> "idle"]
noOptions == [k \in CallSlot |-> None]
noTimes == [k \in CallSlot |-> 0]

\* the store as create() builds it from the Durable Local Store, with the
\* refs and pending tasks of CloudSyncGate.  lastEdit and exit are ghost
\* fields: the rev of the last mutation the context made in cloud mode, and
\* the way the initForSession call that returned last did so.  initWanted
\* counts the initForSession calls that wait for their first
\* getNetworkStatus(): the call on mount and one per 0 ms timer of a SIGNED_IN
\* event.  ipc, ilock, inow and isnap hold, per call in flight, its position
\* and its local variables.  netq are the connectivity events the context's
\* listener has not handled yet, authq the authentication events its
\* onAuthStateChange handler has not handled yet, completing the snapshots of
\* the upsertCloudState() calls of the onboarding's last screen still in
\* flight.  anonWait counts the signInAnonymously() calls of SIGNED_OUT
\* handlers that have not answered (one per handled event, line 503), hmrWait
\* the 500 ms timers of line 233 whose getSession() has not answered.  dev is
\* import.meta.env.DEV of the bundle the page runs (a production build unless
\* a run says otherwise).  taskPc and taskSlot follow the initForSession call
\* that the deferred task of an authenticated SIGNED_IN awaits (line 565):
\* "wanted" until getNetworkStatus() answers, "running" in slot taskSlot,
\* then "returned" or "threw".
hydrate(l) ==
  LET hydrated == OrElse(loadState(l), defaultState)
  IN [open |-> TRUE, dev |-> FALSE,
      schemaVersion |-> hydrated.schemaVersion,
      welcomeSeen |-> l.seen, security |-> hydrated.security, rev |-> hydrated.rev,
      cloudMode |-> "guest", cloudStatus |-> "idle",
      cloudSyncReady |-> ("cloudSyncReady" \in DOMAIN hydrated /\ hydrated.cloudSyncReady),
      sessionExpired |-> FALSE, userEmail |-> FALSE,
      initializedRef |-> FALSE,
      initWanted |-> 1, ipc |-> idleCalls, ilock |-> noOptions, inow |-> noTimes,
      isnap |-> noOptions,
      ppc |-> idleSlots, psnap |-> noSnaps,
      checking |-> 0, armed |-> FALSE, anonWait |-> 0, hmrWait |-> 0,
      taskPc |-> "none", taskSlot |-> 0,
      netq |-> << >>, authq |-> << >>, completing |-> << >>,
      lastEdit |-> 0, exit |-> "none"]

closed(l) == [hydrate(l) EXCEPT !.open = FALSE, !.initWanted = 0]

\* the page of context t is loaded again over storage l, from the same bundle
reload(t, l) == [hydrate(l) EXCEPT !.dev = t.dev]

\* otp is the timestamp under 'auth.pendingOtpVerification', completed the
\* flag 'app.onboarding.completed.v2', deviceInit the flag
\* ONBOARDING_KEYS.DEVICE_INITIALIZED, oauth the timestamp under
\* 'app.oauthTransition', loggedOut the key 'app.onboarding.logout.v2',
\* prevAnon the key 'app.previousAnonUserId' (all three written by the sign-in
\* screens); wasAuth stands for 'app.wasAuthenticated' and the last-auth keys
\* written and removed with it; tokenV1 tells that the token under
\* 'sb-...-auth-token' holds the session in its currentSession field (the
\* layout of supabase-js 1) and not at its top level (the layout of the
\* supabase-js 2 the application calls); full is the state of the quota
emptyStorage ==
  [lock |-> None, pend |-> << >>, state |-> None, seen |-> FALSE, wasAuth |-> FALSE,
   otp |-> None, completed |-> FALSE, oauth |-> None, loggedOut |-> FALSE, prevAnon |-> FALSE,
   deviceInit |-> FALSE, tokenV1 |-> FALSE, full |-> FALSE]

noRows == [i \in Session \ {"none"} |-> None]

\* the document of an account that was used before on another device
cloudDoc == Doc(Some(TRUE), Some([biometricEnabled |-> TRUE, lastAuthTimestamp |-> None]), 0)

existingAccount == [noRows EXCEPT !["auth"] = Some(cloudDoc)]

\* ret when no storage function has been called on its own
noCall == [op |-> "none", arg |-> None, result |-> None, before |-> None, at |-> 0,
           op1 |-> "none", arg1 |-> None, op2 |-> "none", arg2 |-> None]

Init ==
  /\ online = TRUE
  /\ now = 0
  /\ session \in Session
  /\ remote \in {noRows, existingAccount}
  /\ ls = emptyStorage
  /\ tab = [c \in Ctx |-> IF c = "tabA" THEN hydrate(emptyStorage) ELSE closed(emptyStorage)]
  /\ used = 0
  /\ limit = MaxEvents
  /\ ret = noCall

(***************************************************************************)
(* The remote authority and the authentication provider (external          *)
(* collaborators): a remote call settles with success (None) or a failure. *)
(* Without a session there is no row to address, without connectivity no   *)
(* response arrives.                                                       *)
(***************************************************************************)
RemoteResults ==
  IF session = "none" THEN {Some(ErrRejected)}
  ELSE IF ~online THEN {Some(ErrFetch)}
  ELSE {None} \cup (IF used < limit THEN {Some(e) : e \in RemoteErrors} ELSE {})

\* a failure of a call that could have succeeded is an environment event
countFailure(r) ==
  IF IsSome(r) /\ session # "none" /\ online
  THEN used + 1 ELSE used

upsertCloudState(rows, who, snapshot) == [rows EXCEPT ![who] = Some(snapshot)]

getCloudState(rows, who) == rows[who]

\* variant: every failure gives the status error
statusOfFailure_error(err) == "error"

statusOfFailure(err) == IF isNetworkOrServerError(err, online) THEN "offline" ELSE "error"

\* JavaScript runs a context's code to completion between awaits: while context
\* c is inside acquireSyncLock (lines 312-344 have no await) none of its other
\* callbacks runs; only another context can act between its read and its write.
\* In the same way the continuation of `await initForSession()` (line 565) is
\* the first code of the context to run once the awaited call has returned.
betweenTurns(c) ==
  /\ \A k \in CallSlot : tab[c].ipc[k] # "lock"
  /\ tab[c].taskPc # "returned"

\* the initForSession call that line 565 awaits has returned or has thrown
\* variant: the task does not wait for its initForSession call (drops the
\* await of line 565)
resumeTask_unawaited(t) ==
  IF t.taskPc = "running" THEN [t EXCEPT !.taskPc = "returned"] ELSE t

resumeTask(t) ==
  IF t.taskPc = "running" /\ t.ipc[t.taskSlot] = "idle"
  THEN [t EXCEPT !.taskPc = IF t.exit = "threw" THEN "threw" ELSE "returned"]
  ELSE t

Commit(c, w) ==
  /\ tab' = [tab EXCEPT ![c] = resumeTask(w.t)]
  /\ ls' = w.ls

(***************************************************************************)
(* pushSnapshot, in its two steps: up to the await of getNetworkStatus and *)
(* from there to the await of upsertCloudState; then the settlement.       *)
(***************************************************************************)
\* variant: pushSnapshot skips the connectivity check of lines 89-93
pushSnapshotNet_unchecked(w, snapshot) ==
  [go |-> TRUE, w |-> World([w.t EXCEPT !.cloudStatus = "syncing"], w.ls)]

\* lines 89-96: TRUE in .go when the upsert is issued
pushSnapshotNet(w, snapshot) ==
  IF ~online
  THEN [go |-> FALSE,
        w |-> World([w.t EXCEPT !.cloudStatus = "offline"], setPendingSnapshot(w.ls, snapshot))]
  ELSE [go |-> TRUE, w |-> World([w.t EXCEPT !.cloudStatus = "syncing"], w.ls)]

\* lines 98-105
\* variant: a confirmed upsert leaves the buffer as it is (drops line 98)
pushSnapshotSettled_keeps(w, snapshot, result) ==
  IF result = None
  THEN World([w.t EXCEPT !.cloudStatus = "ok"], w.ls)
  ELSE World([w.t EXCEPT !.cloudStatus = statusOfFailure(Get(result))],
             setPendingSnapshot(w.ls, snapshot))

pushSnapshotSettled(w, snapshot, result) ==
  IF result = None
  THEN World([w.t EXCEPT !.cloudStatus = "ok"], clearPendingSnapshot(w.ls))
  ELSE World([w.t EXCEPT !.cloudStatus = statusOfFailure(Get(result))],
             setPendingSnapshot(w.ls, snapshot))

(***************************************************************************)
(* Authentication events as the onAuthStateChange handler sees them        *)
(***************************************************************************)
\* the events onAuthStateChange delivers, with the user of the session they
\* carry
SIGNED_OUT == [event |-> "SIGNED_OUT", user |-> "none"]
SIGNED_IN(user) == [event |-> "SIGNED_IN", user |-> user]

\* every page has its own handler, run by its own event loop: an event is
\* queued for every open context
queueAuthEvent(t, e) == IF t.open THEN [t EXCEPT !.authq = Append(@, e)] ELSE t

\* SIGNED_IN, lines 519-520: the markers every SIGNED_IN event removes
onSignedInMarkers(l) == [l EXCEPT !.oauth = None, !.loggedOut = FALSE]

\* the client library stores the token of a new session in its own layout
storeToken(l) == [l EXCEPT !.tokenV1 = FALSE]

\* lines 454-462: a SIGNED_OUT that arrives within two minutes of the start of
\* an OAuth sign-in is ignored; an older marker is removed
oauthTransitionOpen(l, t) == IsSome(l.oauth) /\ t - Get(l.oauth) < OAUTH_TRANSITION_WINDOW

\* variant: every anonymous SIGNED_IN re-runs initForSession (drops lines
\* 523-526)
onSignedInAnonymous_always(t) ==
  IF ~t.open THEN t ELSE [t EXCEPT !.initializedRef = FALSE, !.initWanted = @ + 1]

\* SIGNED_IN with an anonymous session, lines 518-531
onSignedInAnonymous(t) ==
  IF ~t.open \/ (t.initializedRef /\ t.cloudMode = "cloud") THEN t
  ELSE [t EXCEPT !.initializedRef = FALSE, !.initWanted = @ + 1]

\* variant: the session-expired flag is left as it is (drops line 535)
onSignedInAuthenticatedNow_keepsFlag(t) ==
  IF ~t.open THEN t ELSE [t EXCEPT !.initializedRef = FALSE]

\* lines 535-540: what the handler does before it returns
onSignedInAuthenticatedNow(t) ==
  IF ~t.open THEN t ELSE [t EXCEPT !.sessionExpired = FALSE, !.initializedRef = FALSE]

\* lines 536-538 after lines 519-520
onSignedInAuthenticatedStorage(l) == [onSignedInMarkers(l) EXCEPT !.wasAuth = FALSE]

\* SIGNED_IN with an authenticated session, lines 533-565, taken up to the
\* call of initForSession by the deferred task (the migrations before it touch
\* nothing of the gate)
onSignedInAuthenticated(t) ==
  IF ~t.open THEN t ELSE [onSignedInAuthenticatedNow(t) EXCEPT !.initWanted = @ + 1]

\* variant: the wipe leaves the Pending-Change Buffer alone (drops lines 247
\* and 476)
wipeLocalData_keepsBuffer(w) ==
  LET w1 == World(w.t, clearState(w.ls))
      w2 == replaceAllData(w1, emptyDoc)
      w3 == World(w2.t, [w2.ls EXCEPT !.seen = FALSE])
  IN setWelcomeSeen(w3, FALSE)

\* the wipe shared by the logout branch of initForSession (lines 247-256) and
\* the SIGNED_OUT handler (lines 476-489)
wipeLocalData(w) ==
  LET w1 == World(w.t, clearState(clearPendingSnapshot(w.ls)))
      w2 == replaceAllData(w1, emptyDoc)
      w3 == World(w2.t, [w2.ls EXCEPT !.seen = FALSE])
  IN setWelcomeSeen(w3, FALSE)

(***************************************************************************)
(* initForSession, one action per stretch between two awaits               *)
(***************************************************************************)
\* the slots of a context that hold no initForSession call
freeCalls(t) == {k \in CallSlot : t.ipc[k] = "idle"}

lowest(S) == CHOOSE k \in S : \A j \in S : k <= j

\* initForSession is called (on mount, by the 0 ms timer of a SIGNED_IN
\* event, by the retry of line 237, or awaited by the deferred task at line
\* 565: own) and getNetworkStatus() has answered: lines 111-168.  Nothing in
\* the function looks at the calls already in flight.
InitNetStatus(c) ==
  \E own \in BOOLEAN :
  LET t == tab[c]
      hasStoredSession == session # "none"
      started == IF own THEN [t EXCEPT !.taskPc = "running"] ELSE [t EXCEPT !.initWanted = @ - 1]
      offlineStart ==
        [started EXCEPT !.cloudMode = IF hasStoredSession THEN "cloud" ELSE "guest",
                        !.userEmail = IF session = "auth" THEN TRUE ELSE @,
                        !.cloudStatus = "offline",
                        !.initializedRef = TRUE,
                        !.cloudSyncReady = TRUE,
                        !.taskPc = IF own THEN "returned" ELSE @,
                        !.taskSlot = IF own THEN 0 ELSE @,
                        !.exit = "offlineStart"]
      k == lowest(freeCalls(t))
  IN /\ t.open /\ betweenTurns(c)
     /\ IF own THEN t.taskPc = "wanted" ELSE t.initWanted > 0
     /\ online => freeCalls(t) # {}
     /\ tab' = [tab EXCEPT ![c] =
                  IF ~online THEN offlineStart
                  ELSE [started EXCEPT !.ipc[k] = "getSession",
                                       !.taskSlot = IF own THEN k ELSE @]]
     /\ UNCHANGED << online, now, session, remote, ls, used, limit, ret >>

\* lines 170-193: the session initForSession goes on with.  getSession() is
\* raced against a 5000 ms timer; when it answers, its session is taken.  When
\* it times out or rejects, the catch block reads the stored token and takes
\* parsed.currentSession only: a token that holds the session at its top level
\* (the other layout that line 142 accepts) gives no session.
sessionSeen(answered, l) == IF answered \/ l.tokenV1 THEN session ELSE "none"

\* the outcomes of the race: a timeout or rejection is an environment event
GetSessionAnswers == IF used < limit THEN BOOLEAN ELSE {TRUE}

\* lines 196-201: the session found is one whose OTP verification was left
\* pending for more than ten minutes
pendingOtpAbandoned(seen, l, t) ==
  seen # "none" /\ IsSome(l.otp) /\ t - Get(l.otp) > PENDING_OTP_MAX_AGE

\* lines 170-309: getSession() has answered, or the race was lost
InitGetSession(c) ==
  \E k \in CallSlot, answered \in GetSessionAnswers :
  LET t == tab[c]
      seen == sessionSeen(answered, ls)
      expired == [t EXCEPT !.sessionExpired = TRUE, !.cloudMode = "guest",
                           !.cloudStatus = "idle", !.initializedRef = TRUE,
                           !.cloudSyncReady = TRUE, !.ipc[k] = "idle", !.exit = "expired"]
      wasAuthenticated == t.cloudMode = "cloud" /\ t.userEmail
      \* lines 231-241: a development build keeps the store of a signed-in
      \* user as it is and asks for the session again 500 ms later
      hmr == World([t EXCEPT !.hmrWait = @ + 1, !.ipc[k] = "idle", !.exit = "hmr"], ls)
      w0 == World(t, ls)
      w1 == IF wasAuthenticated THEN wipeLocalData(w0) ELSE w0
      noSession == World([rendered(t, w1.t, wasAuthenticated) EXCEPT
                            !.userEmail = FALSE, !.ipc[k] = "anon"], w1.ls)
      found == World([t EXCEPT !.userEmail = (seen = "auth"),
                               !.cloudMode = "cloud", !.ipc[k] = "net1"],
                     IF seen = "auth" THEN [ls EXCEPT !.wasAuth = TRUE] ELSE ls)
      \* lines 303-307 are outside every try block: setItem throws and the
      \* promise of initForSession is rejected
      threw == World([t EXCEPT !.userEmail = TRUE, !.ipc[k] = "idle", !.exit = "threw"], ls)
  IN /\ t.ipc[k] = "getSession" /\ betweenTurns(c) /\ ~pendingOtpAbandoned(seen, ls, now)
     /\ Commit(c, IF seen = "none"
                  THEN (IF ls.wasAuth THEN World(expired, ls)
                        ELSE IF t.dev /\ wasAuthenticated THEN hmr
                        ELSE noSession)
                  ELSE IF seen = "auth" /\ ls.full THEN threw
                  ELSE found)
     /\ used' = (IF answered THEN used ELSE used + 1)
     /\ UNCHANGED << online, now, session, remote, limit, ret >>

\* lines 231-239: the timer of the development build has fired and its
\* getSession() has settled.  When it answers with a session initForSession
\* is called again; the call of line 234 is awaited outside every try block
\* and without a race, so when it rejects the callback ends there and
\* nothing is called
HmrRetry(c) ==
  \E answered \in BOOLEAN :
  LET t == tab[c]
  IN /\ t.open /\ t.hmrWait > 0 /\ betweenTurns(c)
     /\ tab' = [tab EXCEPT ![c] =
                  [t EXCEPT !.hmrWait = @ - 1,
                            !.initWanted = IF answered /\ session # "none" THEN @ + 1 ELSE @]]
     /\ UNCHANGED << online, now, session, remote, ls, used, limit, ret >>

\* signInAnonymously() called by context c succeeds: the provider creates a
\* user that has no row, the client library stores the token and, before the
\* call returns, runs the handler of the page with SIGNED_IN (lines 518-531);
\* the other open pages are sent the event
anonymousSession(c, l) ==
  [session |-> "anon",
   tab |-> [d \in Ctx |-> IF d = c THEN onSignedInAnonymous(tab[d])
                          ELSE queueAuthEvent(tab[d], SIGNED_IN("anon"))],
   ls |-> onSignedInMarkers(storeToken(l))]

\* lines 268-286: signInAnonymously() has answered
InitAnonSignIn(c) ==
  \E k \in CallSlot :
  LET t == tab[c]
      fallback == [t EXCEPT !.cloudMode = "guest", !.cloudStatus = "idle",
                            !.initializedRef = FALSE, !.cloudSyncReady = TRUE,
                            !.ipc[k] = "idle", !.exit = "guest"]
      created == anonymousSession(c, ls)
  IN /\ t.ipc[k] = "anon" /\ betweenTurns(c)
     /\ \E ok \in IF online THEN (IF used < limit THEN BOOLEAN ELSE {TRUE}) ELSE {FALSE} :
          IF ok
          THEN /\ session' = created.session
               /\ remote' = [remote EXCEPT !["anon"] = None]
               /\ tab' = [created.tab EXCEPT
                            ![c] = resumeTask([@ EXCEPT !.ipc[k] = "idle", !.exit = "anon"])]
               /\ ls' = created.ls
               /\ used' = used /\ UNCHANGED << limit, ret >>
          ELSE /\ Commit(c, World(fallback, ls))
               /\ used' = (IF online THEN used + 1 ELSE used) /\ UNCHANGED << limit, ret >>
               /\ UNCHANGED << session, remote >>
     /\ UNCHANGED << online, now >>

\* lines 312-319 and the read of acquireSyncLock (lines 45-46)
InitNetRecheck(c) ==
  \E k \in CallSlot :
  LET t == tab[c]
      offline == World([t EXCEPT !.cloudStatus = "offline", !.initializedRef = TRUE,
                                 !.cloudSyncReady = TRUE, !.ipc[k] = "idle", !.exit = "offline"],
                       setPendingSnapshot(ls, getSnapshot(t)))
      reading == World([t EXCEPT !.ilock[k] = ls.lock, !.inow[k] = now, !.ipc[k] = "lock"], ls)
  IN /\ t.ipc[k] = "net1" /\ betweenTurns(c)
     /\ Commit(c, IF ~online THEN offline ELSE reading)
     /\ UNCHANGED << online, now, session, remote, used, limit, ret >>

\* variant: the refused attempt removes the lock record on its way out, as the
\* finally block of lines 392-394 does for an attempt that held it
lockRefused_releases(w, k) ==
  World([w.t EXCEPT !.cloudStatus = "ok", !.initializedRef = TRUE,
                    !.cloudSyncReady = TRUE, !.ipc[k] = "idle", !.exit = "refused"],
        releaseSyncLock(w.ls))

\* lines 322-328: the lock was not acquired
lockRefused(w, k) ==
  World([w.t EXCEPT !.cloudStatus = "ok", !.initializedRef = TRUE,
                    !.cloudSyncReady = TRUE, !.ipc[k] = "idle", !.exit = "refused"],
        w.ls)

\* the rest of acquireSyncLock (lines 48-57) and lines 322-344
InitAcquireLock(c) ==
  \E k \in CallSlot :
  LET t == tab[c]
      r == acquireSyncLock(t.ilock[k], t.inow[k])
      l1 == writeSyncLock(ls, r)
      refused == lockRefused(World([t EXCEPT !.ilock[k] = None, !.inow[k] = 0], ls), k)
      pending == getPendingSnapshot(l1)
      entered == [t EXCEPT !.cloudStatus = "syncing",
                           !.isnap[k] = pending,
                           !.ipc[k] = IF IsSome(pending) THEN "pushNet" ELSE "pull"]
  IN /\ t.ipc[k] = "lock"
     /\ Commit(c, IF r.acquired THEN World(entered, l1) ELSE refused)
     /\ UNCHANGED << online, now, session, remote, used, limit, ret >>

\* leaving initForSession through the finally block (lines 392-394)
finallyReturn(w, k, how) ==
  World([w.t EXCEPT !.ipc[k] = "idle", !.isnap[k] = None, !.ilock[k] = None, !.inow[k] = 0, !.exit = how],
        releaseSyncLock(w.ls))

\* lines 337-339 with pushSnapshot lines 89-96
InitPushNet(c) ==
  \E k \in CallSlot :
  LET t == tab[c]
      r == pushSnapshotNet(World(t, ls), Get(t.isnap[k]))
      returned == finallyReturn(World([r.w.t EXCEPT !.initializedRef = TRUE], r.w.ls), k, "pushDeferred")
  IN /\ t.ipc[k] = "pushNet" /\ betweenTurns(c)
     /\ Commit(c, IF r.go THEN World([r.w.t EXCEPT !.ipc[k] = "pushUpsert"], r.w.ls) ELSE returned)
     /\ UNCHANGED << online, now, session, remote, used, limit, ret >>

\* pushSnapshot lines 98-105, then lines 338-339
InitPushDone(c) ==
  \E k \in CallSlot :
  LET t == tab[c]
  IN /\ t.ipc[k] = "pushUpsert" /\ betweenTurns(c)
     /\ \E result \in RemoteResults :
          LET w1 == pushSnapshotSettled(World(t, ls), Get(t.isnap[k]), result)
          IN /\ Commit(c, finallyReturn(World([w1.t EXCEPT !.initializedRef = TRUE], w1.ls),
                                     k, IF result = None THEN "pushed" ELSE "pushFailed"))
             /\ remote' = IF result = None THEN upsertCloudState(remote, session, Get(t.isnap[k]))
                          ELSE remote
             /\ used' = countFailure(result) /\ UNCHANGED << limit, ret >>
     /\ UNCHANGED << online, now, session >>

\* the catch block of initForSession, lines 386-391
initFailed(w, err) ==
  World([w.t EXCEPT !.cloudStatus = statusOfFailure(err), !.initializedRef = TRUE,
                    !.cloudSyncReady = TRUE],
        setPendingSnapshot(w.ls, getSnapshot(w.t)))

\* lines 344-356 and 369-373: getCloudState() has answered
InitPullDone(c) ==
  \E k \in CallSlot :
  LET t == tab[c]
  IN /\ t.ipc[k] = "pull" /\ betweenTurns(c)
     /\ \E result \in RemoteResults :
          LET cloud == getCloudState(remote, session)
              \* lines 350-354: the onboarding flag is written inside the try
              \* block when the cloud document has welcomeSeen set
              marks == ~ls.completed /\ Get(cloud).welcomeSeen = Some(TRUE)
              replaced == replaceAllData(World(t, IF marks THEN [ls EXCEPT !.completed = TRUE] ELSE ls),
                                         Get(cloud))
              pulled == World([rendered(t, replaced.t, TRUE) EXCEPT !.ipc[k] = "sub"], replaced.ls)
              seeding == World([t EXCEPT !.isnap[k] = Some(getSnapshot(t)), !.ipc[k] = "seed"], ls)
          IN /\ Commit(c, IF IsSome(result) THEN finallyReturn(initFailed(World(t, ls), Get(result)), k, "failed")
                          ELSE IF IsSome(cloud) /\ marks /\ ls.full
                          THEN finallyReturn(initFailed(World(t, ls), ErrQuota), k, "failed")
                          ELSE IF IsSome(cloud) THEN pulled ELSE seeding)
             /\ used' = countFailure(result) /\ UNCHANGED << limit, ret >>
     /\ UNCHANGED << online, now, session, remote >>

\* variant: initForSession completes without updateLastAuthTimestamp()
\* (drops lines 368 and 374)
initComplete_unstamped(w, t) ==
  World([w.t EXCEPT !.cloudStatus = "ok", !.initializedRef = TRUE, !.cloudSyncReady = TRUE],
        w.ls)

\* lines 377-380, after the data has been pulled or seeded
initComplete(w, t) ==
  LET w1 == updateLastAuthTimestamp(w, t)
      t1 == [w1.t EXCEPT !.cloudStatus = "ok", !.initializedRef = TRUE, !.cloudSyncReady = TRUE]
  IN World(rendered(w.t, t1, TRUE), w1.ls)

\* lines 359-380: the subscription fetch has settled (its failure is caught)
InitSubscriptionDone(c) ==
  \E k \in CallSlot :
  LET t == tab[c]
  IN /\ t.ipc[k] = "sub" /\ betweenTurns(c)
     /\ Commit(c, finallyReturn(initComplete(World(t, ls), now), k, "pulled"))
     /\ UNCHANGED << online, now, session, remote, used, limit, ret >>

\* lines 373-380: the seeding upsert has settled
InitSeedDone(c) ==
  \E k \in CallSlot :
  LET t == tab[c]
  IN /\ t.ipc[k] = "seed" /\ betweenTurns(c)
     /\ \E result \in RemoteResults :
          /\ Commit(c, IF IsSome(result)
                       THEN finallyReturn(initFailed(World(t, ls), Get(result)), k, "failed")
                       ELSE finallyReturn(initComplete(World(t, ls), now), k, "seeded"))
          /\ remote' = IF result = None THEN upsertCloudState(remote, session, Get(t.isnap[k]))
                       ELSE remote
          /\ used' = countFailure(result) /\ UNCHANGED << limit, ret >>
     /\ UNCHANGED << online, now, session >>

(***************************************************************************)
(* pushSnapshot called by a trigger outside initForSession                 *)
(***************************************************************************)
\* the slots of a trigger that hold no pushSnapshot call
freePush(t, trigger) == {k \in CallSlot : t.ppc[<< trigger, k >>] = "idle"}

startPush(t, trigger, snapshot) ==
  LET p == << trigger, lowest(freePush(t, trigger)) >>
  IN [t EXCEPT !.ppc[p] = "net", !.psnap[p] = Some(snapshot)]

endPush(t, p) == [t EXCEPT !.ppc[p] = "idle", !.psnap[p] = None]

\* pushSnapshot lines 89-96
PushNet(c, p) ==
  LET t == tab[c]
      r == pushSnapshotNet(World(t, ls), Get(t.psnap[p]))
  IN /\ t.ppc[p] = "net" /\ betweenTurns(c)
     /\ Commit(c, IF r.go THEN World([r.w.t EXCEPT !.ppc[p] = "upsert"], r.w.ls)
                  ELSE World(endPush(r.w.t, p), r.w.ls))
     /\ UNCHANGED << online, now, session, remote, used, limit, ret >>

\* pushSnapshot lines 98-105
PushDone(c, p) ==
  LET t == tab[c]
  IN /\ t.ppc[p] = "upsert" /\ betweenTurns(c)
     /\ \E result \in RemoteResults :
          LET w1 == pushSnapshotSettled(World(t, ls), Get(t.psnap[p]), result)
          IN /\ Commit(c, World(endPush(w1.t, p), w1.ls))
             /\ remote' = IF result = None
                          THEN upsertCloudState(remote, session, Get(t.psnap[p]))
                          ELSE remote
             /\ used' = countFailure(result) /\ UNCHANGED << limit, ret >>
     /\ UNCHANGED << online, now, session >>

(***************************************************************************)
(* The network listener (lines 402-428)                                    *)
(***************************************************************************)
onOnline(t, l) ==
  LET pending == getPendingSnapshot(l)
  IN IF t.open /\ t.initializedRef /\ IsSome(pending)
     THEN startPush(t, "drain", Get(pending)) ELSE t

onOffline(t) == IF t.open THEN [t EXCEPT !.cloudStatus = "offline"] ELSE t

\* the callback given to addNetworkListener (lines 416-422) run with one event
onNetwork(w, isOnline) ==
  IF isOnline THEN World(onOnline(w.t, w.ls), w.ls)
  ELSE IF w.t.open THEN World(onOffline(w.t), setPendingSnapshot(w.ls, getSnapshot(w.t)))
  ELSE w

\* every page runs its listener in its own event loop: a transition of the
\* device is queued (netq) for every open context, and getNetworkStatus()
\* answers with the new reachability from then on
queueNetwork(t, isOnline) == IF t.open THEN [t EXCEPT !.netq = Append(@, isOnline)] ELSE t

GoOnline ==
  /\ ~online /\ used < limit
  /\ online' = TRUE
  /\ tab' = [c \in Ctx |-> queueNetwork(tab[c], TRUE)]
  /\ used' = used + 1 /\ UNCHANGED << limit, ret >>
  /\ UNCHANGED << now, session, remote, ls >>

GoOffline ==
  /\ online /\ used < limit
  /\ online' = FALSE
  /\ tab' = [c \in Ctx |-> queueNetwork(tab[c], FALSE)]
  /\ used' = used + 1 /\ UNCHANGED << limit, ret >>
  /\ UNCHANGED << now, session, remote, ls >>

\* the listener of a context handles the oldest event it was queued
NetListener(c) ==
  LET t == tab[c]
      isOnline == Head(t.netq)
  IN /\ t.open /\ t.netq # << >> /\ betweenTurns(c)
     /\ (isOnline /\ t.initializedRef /\ IsSome(getPendingSnapshot(ls)))
          => freePush(t, "drain") # {}
     /\ Commit(c, onNetwork(World([t EXCEPT !.netq = Tail(@)], ls), isOnline))
     /\ UNCHANGED << online, now, session, remote, used, limit, ret >>

(***************************************************************************)
(* The retry timer (lines 431-446): a tick that passes its guards          *)
(***************************************************************************)
\* variant: the timer also retries when the status is offline (drops the
\* distinction of line 435)
retryWanted_offline(t, l) ==
  /\ t.open
  /\ t.cloudMode = "cloud" /\ t.initializedRef
  /\ t.cloudStatus \in {"error", "offline"}
  /\ IsSome(getPendingSnapshot(l))

retryWanted(t, l) ==
  /\ t.open
  /\ t.cloudMode = "cloud" /\ t.initializedRef
  /\ t.cloudStatus = "error"
  /\ IsSome(getPendingSnapshot(l))

\* the interval callback, lines 432-442, up to the call of pushSnapshot
retryTick(t, l) ==
  IF retryWanted(t, l) THEN startPush(t, "retry", Get(getPendingSnapshot(l))) ELSE t

\* a tick whose guards fail changes nothing and is left out
RetryTick(c) ==
  /\ retryWanted(tab[c], ls) /\ freePush(tab[c], "retry") # {} /\ betweenTurns(c)
  /\ tab' = [tab EXCEPT ![c] = retryTick(@, ls)]
  /\ UNCHANGED << online, now, session, remote, ls, used, limit, ret >>

(***************************************************************************)
(* Local mutations and the debounced push (lines 586-607)                  *)
(***************************************************************************)
\* the documents a page hands to replaceAllData
PageDocs == {emptyDoc, cloudDoc}

\* the page calls an operation of the store on the user's behalf:
\* toggleBiometricAuth(), updateLastAuthTimestamp(), setWelcomeSeen(v) with
\* the other or with the same value, or replaceAllData(data).  A call that
\* changes the content is a local mutation and gets the next serial number;
\* setWelcomeSeen(v) with the value the store holds only saves the store.
LocalEdit(c) ==
  LET t == tab[c]
      rev == used + 1
      stamp(w, securitySet) ==
        World([rendered(t, w.t, securitySet) EXCEPT
                 !.rev = rev,
                 !.lastEdit = IF t.cloudMode = "cloud" THEN rev ELSE @],
              IF w.ls.full THEN w.ls
              ELSE [w.ls EXCEPT !.state = Some([Get(w.ls.state) EXCEPT !.rev = rev])])
  IN /\ t.open /\ used < limit /\ betweenTurns(c)
     /\ \/ Commit(c, stamp(toggleBiometricAuth(World(t, ls)), TRUE))
        \/ Commit(c, stamp(updateLastAuthTimestamp(World(t, ls), now), TRUE))
        \/ \E v \in BOOLEAN :
             Commit(c, IF v = t.welcomeSeen THEN setWelcomeSeen(World(t, ls), v)
                       ELSE stamp(setWelcomeSeen(World(t, ls), v), FALSE))
        \/ \E data \in PageDocs :
             Commit(c, stamp(replaceAllData(World(t, ls), data), TRUE))
     /\ used' = used + 1 /\ UNCHANGED << limit, ret >>
     /\ UNCHANGED << online, now, session, remote >>

\* checkNetworkAndPush after getNetworkStatus() has answered (lines 591-601)
DebounceCheck(c) ==
  LET t == tab[c]
      offline == World([t EXCEPT !.checking = @ - 1, !.cloudStatus = "offline"],
                       setPendingSnapshot(ls, getSnapshot(t)))
      armed == World([t EXCEPT !.checking = @ - 1, !.armed = TRUE], ls)
  IN /\ t.checking > 0 /\ betweenTurns(c)
     /\ Commit(c, IF ~online THEN offline ELSE armed)
     /\ UNCHANGED << online, now, session, remote, used, limit, ret >>

\* the 1200 ms timer fires: pushNow() (lines 397-399, 599-601)
DebounceFire(c) ==
  LET t == tab[c]
  IN /\ t.armed /\ freePush(t, "local") # {} /\ betweenTurns(c)
     /\ tab' = [tab EXCEPT ![c] = startPush([t EXCEPT !.armed = FALSE], "local", getSnapshot(t))]
     /\ UNCHANGED << online, now, session, remote, ls, used, limit, ret >>

(***************************************************************************)
(* The last screen of the onboarding (Screen4_Complete.tsx): its button    *)
(* writes the snapshot to the remote authority itself and then sets the    *)
(* onboarding keys.                                                        *)
(***************************************************************************)
RemoveAt(seq, i) == [j \in 1..(Len(seq) - 1) |-> IF j < i THEN seq[j] ELSE seq[j + 1]]

\* lines 41-42: the device flag is written outside every try block, so that a
\* full storage makes the handler throw at line 41; markOnboardingComplete()
\* (onboarding.helpers) then sets the completed flag that line 350 reads
completeOnboarding(l) ==
  IF l.full THEN l ELSE [l EXCEPT !.deviceInit = TRUE, !.completed = TRUE]

\* handleComplete, lines 23-43: with a stored session, up to the await of
\* upsertCloudState(getSnapshot()); without one, to its end
HandleComplete(c) ==
  LET t == tab[c]
      hasStoredSession == session # "none"
  IN /\ t.open /\ used < limit /\ betweenTurns(c)
     /\ hasStoredSession => Len(t.completing) < MaxCalls
     /\ tab' = [tab EXCEPT ![c].completing =
                               IF hasStoredSession THEN Append(@, getSnapshot(t)) ELSE @]
     /\ ls' = IF hasStoredSession THEN ls ELSE completeOnboarding(ls)
     /\ used' = used + 1 /\ UNCHANGED << limit, ret >>
     /\ UNCHANGED << online, now, session, remote >>

\* lines 32-43: the upsert has settled (a failure is caught and logged) and
\* the handler runs to its end
HandleCompleteDone(c) ==
  LET t == tab[c]
  IN /\ betweenTurns(c)
     /\ \E i \in 1..Len(t.completing), result \in RemoteResults :
          /\ tab' = [tab EXCEPT ![c].completing = RemoveAt(@, i)]
          /\ remote' = IF result = None
                       THEN upsertCloudState(remote, session, t.completing[i])
                       ELSE remote
          /\ used' = countFailure(result) /\ UNCHANGED << limit, ret >>
     /\ ls' = completeOnboarding(ls)
     /\ UNCHANGED << online, now, session >>

(***************************************************************************)
(* Authentication events (lines 452-579)                                   *)
(***************************************************************************)
\* SIGNED_OUT handled as if the breadcrumb were never set: the wipe always
\* runs (drops lines 464-471)
onSignedOut_wipes(w) ==
  LET t == w.t
      w1 == wipeLocalData(World(t, [w.ls EXCEPT !.oauth = None]))
      wiped == rendered(t, [w1.t EXCEPT
                              !.userEmail = FALSE, !.cloudMode = "guest", !.cloudStatus = "idle",
                              !.initializedRef = FALSE, !.anonWait = @ + 1], TRUE)
  IN IF ~t.open \/ oauthTransitionOpen(w.ls, now) THEN w ELSE World(wiped, w1.ls)

\* SIGNED_OUT, lines 453-503, up to the await of signInAnonymously(): within
\* the window of an OAuth sign-in the event is ignored (lines 454-460); an
\* older marker is removed (line 461); with the breadcrumb the session has
\* expired (lines 464-471); without it the local data is wiped and a new
\* anonymous session is asked for (lines 473-503)
onSignedOut(w) ==
  LET t == w.t
      l0 == [w.ls EXCEPT !.oauth = None]
      expired == [t EXCEPT !.sessionExpired = TRUE, !.cloudMode = "guest", !.cloudStatus = "idle"]
      w1 == wipeLocalData(World(t, l0))
      wiped == rendered(t, [w1.t EXCEPT
                              !.userEmail = FALSE, !.cloudMode = "guest", !.cloudStatus = "idle",
                              !.initializedRef = FALSE, !.anonWait = @ + 1], TRUE)
  IN IF ~t.open \/ oauthTransitionOpen(w.ls, now) THEN w
     ELSE IF w.ls.wasAuth THEN World(expired, l0)
     ELSE World(wiped, w1.ls)

\* the callback given to onAuthStateChange (lines 452-579) run with one event
onAuthStateChange(w, e) ==
  IF e.event = "SIGNED_OUT" THEN onSignedOut(w)
  ELSE IF e.user = "anon" THEN World(onSignedInAnonymous(w.t), onSignedInMarkers(w.ls))
  ELSE World(onSignedInAuthenticated(w.t), onSignedInAuthenticatedStorage(w.ls))

\* the handler of a context handles the oldest event it was queued
AuthHandled(c) ==
  LET t == tab[c]
  IN /\ t.open /\ t.authq # << >> /\ betweenTurns(c)
     /\ Commit(c, onAuthStateChange(World([t EXCEPT !.authq = Tail(@)], ls), Head(t.authq)))
     /\ UNCHANGED << online, now, session, remote, used, limit >>

AuthListener(c) == AuthHandled(c) /\ UNCHANGED ret

\* the session ends (sign-out or expiry): SIGNED_OUT goes to every open page
SignedOut ==
  /\ session # "none" /\ used < limit
  /\ session' = "none"
  /\ tab' = [c \in Ctx |-> queueAuthEvent(tab[c], SIGNED_OUT)]
  /\ used' = used + 1 /\ UNCHANGED << limit, ret >>
  /\ UNCHANGED << online, now, remote, ls >>

\* lines 503-513: signInAnonymously() of the SIGNED_OUT handler has answered,
\* with a session or with a failure (returned or thrown)
SignedOutAnonSignIn(c) ==
  LET t == tab[c]
      created == anonymousSession(c, ls)
  IN /\ t.open /\ t.anonWait > 0 /\ betweenTurns(c)
     /\ \E ok \in IF online THEN (IF used < limit THEN BOOLEAN ELSE {TRUE}) ELSE {FALSE} :
          IF ok
          THEN /\ session' = created.session
               /\ remote' = [remote EXCEPT !["anon"] = None]
               /\ tab' = [created.tab EXCEPT ![c].anonWait = @ - 1]
               /\ ls' = created.ls
               /\ used' = used /\ UNCHANGED << limit, ret >>
          ELSE /\ tab' = [tab EXCEPT ![c].anonWait = @ - 1, ![c].cloudSyncReady = TRUE]
               /\ used' = (IF online THEN used + 1 ELSE used) /\ UNCHANGED << limit, ret >>
               /\ UNCHANGED << session, remote, ls >>
     /\ UNCHANGED << online, now >>

\* the user signs in to an account: the client library stores the token and
\* SIGNED_IN with the authenticated session goes to every open page
SignedIn ==
  /\ session # "auth" /\ online /\ used < limit
  /\ session' = "auth"
  /\ tab' = [c \in Ctx |-> queueAuthEvent(tab[c], SIGNED_IN("auth"))]
  /\ ls' = storeToken(ls)
  /\ used' = used + 1 /\ UNCHANGED << limit, ret >>
  /\ UNCHANGED << online, now, remote >>

(***************************************************************************)
(* Environment                                                             *)
(***************************************************************************)
Tick ==
  /\ used < limit
  /\ now' = now + TickMs
  /\ used' = used + 1 /\ UNCHANGED << limit, ret >>
  /\ UNCHANGED << online, session, remote, ls, tab >>

\* a second context (tab) is opened on the same storage
OpenTab(c) ==
  /\ ~tab[c].open
  /\ tab' = [tab EXCEPT ![c] = hydrate(ls)]
  /\ UNCHANGED << online, now, session, remote, ls, used, limit, ret >>

(***************************************************************************)
(* Specifications                                                          *)
(***************************************************************************)
Engine(c) ==
  \/ InitNetStatus(c)
  \/ InitGetSession(c)
  \/ InitAnonSignIn(c)
  \/ InitNetRecheck(c)
  \/ InitAcquireLock(c)
  \/ InitPushNet(c)
  \/ InitPushDone(c)
  \/ InitPullDone(c)
  \/ InitSubscriptionDone(c)
  \/ InitSeedDone(c)
  \/ \E p \in PushSlot : PushNet(c, p)
  \/ \E p \in PushSlot : PushDone(c, p)
  \/ RetryTick(c)
  \/ LocalEdit(c)
  \/ DebounceCheck(c)
  \/ DebounceFire(c)
  \/ NetListener(c)
  \/ HandleComplete(c)
  \/ HandleCompleteDone(c)

\* one context, with connectivity, clock and identity events; the listener of
\* identity events runs for the events queued to the context
Next ==
  \/ Engine("tabA")
  \/ AuthListener("tabA")
  \/ GoOnline
  \/ GoOffline
  \/ SignedOut
  \/ SignedOutAnonSignIn("tabA")
  \/ SignedIn

Spec == Init /\ [][Next]_vars

\* two contexts on the storage of a device that holds a session, with
\* connectivity and clock events
InitTabs ==
  /\ online \in BOOLEAN
  /\ now = 0
  /\ session \in Session \ {"none"}
  /\ remote \in {noRows, existingAccount}
  /\ ls = emptyStorage
  /\ tab = [c \in Ctx |-> IF c = "tabA" THEN hydrate(emptyStorage) ELSE closed(emptyStorage)]
  /\ used = 0
  /\ limit = MaxTabEvents
  /\ ret = noCall

NextTabs ==
  \/ \E c \in Ctx : Engine(c)
  \/ \E c \in Ctx : AuthListener(c)
  \/ OpenTab("tabB")
  \/ GoOnline
  \/ GoOffline
  \/ Tick

SpecTabs == InitTabs /\ [][NextTabs]_vars

(***************************************************************************)
(* The lock functions on their own: acquireSyncLock and releaseSyncLock    *)
(* called at any clock value on any record.                                *)
(***************************************************************************)
LockTimes == {0, 1, SYNC_LOCK_TIMEOUT - 1, SYNC_LOCK_TIMEOUT, SYNC_LOCK_TIMEOUT + 1,
              2 * SYNC_LOCK_TIMEOUT - 1}

called(op, arg, result) ==
  [op |-> op, arg |-> arg, result |-> result, before |-> ls.lock, at |-> now,
   op1 |-> ret.op, arg1 |-> ret.arg, op2 |-> ret.op1, arg2 |-> ret.arg1]

InitLock ==
  /\ online = TRUE
  /\ now \in LockTimes
  /\ session = "none"
  /\ remote = noRows
  /\ \E record \in {None} \cup {Some(t) : t \in LockTimes}, full \in BOOLEAN :
       /\ IsSome(record) => Get(record) <= now
       /\ ls = [emptyStorage EXCEPT !.lock = record, !.full = full]
  /\ tab = [c \in Ctx |-> closed(emptyStorage)]
  /\ used = 0
  /\ limit = 0
  /\ ret = noCall

LockAcquire ==
  LET r == acquireSyncLock(ls.lock, now)
  IN /\ ls' = writeSyncLock(ls, r)
     /\ ret' = called("acquire", None, Some(r.acquired))
     /\ UNCHANGED << online, now, session, remote, tab, used, limit >>

LockRelease ==
  /\ ls' = releaseSyncLock(ls)
  /\ ret' = called("release", None, None)
  /\ UNCHANGED << online, now, session, remote, tab, used, limit >>

LockClock ==
  /\ \E t \in LockTimes : t > now /\ now' = t
  /\ UNCHANGED << online, session, remote, ls, tab, used, limit, ret >>

NextLock == LockAcquire \/ LockRelease \/ LockClock

SpecLock == InitLock /\ [][NextLock]_vars

(***************************************************************************)
(* The Pending-Change Buffer on its own: set, get and clear called in any  *)
(* order on any documents.                                                 *)
(***************************************************************************)
BufferDocs ==
  {Doc(ws, sec, 0) :
     ws \in {None, Some(FALSE), Some(TRUE)},
     sec \in {None, Some(defaultSecurity),
              Some([biometricEnabled |-> TRUE, lastAuthTimestamp |-> Some(0)])}}

InitBuffer ==
  /\ online = TRUE
  /\ now = 0
  /\ session = "none"
  /\ remote = noRows
  /\ \E content \in {<< >>} \cup {<< d >> : d \in BufferDocs} :
       ls = [emptyStorage EXCEPT !.pend = content]
  /\ tab = [c \in Ctx |-> closed(emptyStorage)]
  /\ used = 0
  /\ limit = 0
  /\ ret = noCall

BufferSet ==
  \E state \in BufferDocs :
    /\ ls' = setPendingSnapshot(ls, state)
    /\ ret' = called("set", Some(state), None)
    /\ UNCHANGED << online, now, session, remote, tab, used, limit >>

BufferGet ==
  /\ ret' = called("get", None, getPendingSnapshot(ls))
  /\ UNCHANGED << online, now, session, remote, ls, tab, used, limit >>

BufferClear ==
  /\ ls' = clearPendingSnapshot(ls)
  /\ ret' = called("clear", None, None)
  /\ UNCHANGED << online, now, session, remote, tab, used, limit >>

NextBuffer == BufferSet \/ BufferGet \/ BufferClear

SpecBuffer == InitBuffer /\ [][NextBuffer]_vars

(***************************************************************************)
(* Vocabulary of the properties                                            *)
(***************************************************************************)
\* the program counters of initForSession between acquireSyncLock and finally
Protected == {"pushNet", "pushUpsert", "pull", "sub", "seed"}

\* the copy the Remote Authority holds for the current identity
remoteCopy == IF session = "none" THEN None ELSE remote[session]

\* the remote upserts of the sync engine that are outstanding in context c
upsertsOf(c) ==
  {<< c, p >> : p \in {q \in PushSlot : tab[c].open /\ tab[c].ppc[q] = "upsert"}}
    \cup {<< c, << "init", k >> >> :
            k \in {j \in CallSlot : tab[c].open /\ tab[c].ipc[j] \in {"pushUpsert", "seed"}}}

\* no initForSession call of context c is in flight
NoCall(c) == tab[c].ipc = idleCalls

upsertsInFlight == UNION {upsertsOf(c) : c \in Ctx}

\* nothing is running or scheduled in context c
Quiescent(c) ==
  /\ NoCall(c) /\ tab[c].initWanted = 0 /\ tab[c].anonWait = 0 /\ tab[c].hmrWait = 0
  /\ tab[c].taskPc \in {"none", "threw"}
  /\ tab[c].ppc = idleSlots
  /\ tab[c].checking = 0 /\ ~tab[c].armed
  /\ tab[c].netq = << >> /\ tab[c].authq = << >> /\ tab[c].completing = << >>

\* in this step context c returns from initForSession because the lock was refused
RefusedStep(c) == \E k \in CallSlot : tab[c].ipc[k] = "lock" /\ tab'[c].ipc[k] = "idle"

(***************************************************************************)
(* Properties                                                              *)
(***************************************************************************)
\* C1: no data loss.  Once a context that made a local mutation in cloud mode
\* has nothing running or scheduled, its latest mutation is in the Remote
\* Authority's copy or in the Pending-Change Buffer.
C1_NoDataLoss ==
  \A c \in Ctx :
    (tab[c].open /\ tab[c].lastEdit > 0 /\ Quiescent(c))
      => \/ IsSome(remoteCopy) /\ Get(remoteCopy).rev = tab[c].lastEdit
         \/ IsSome(getPendingSnapshot(ls)) /\ Get(getPendingSnapshot(ls)).rev = tab[c].lastEdit

\* C2: a push never replaces the remote copy of an identity by a snapshot of an
\* older local mutation than the one the copy holds.
C2_StaleNeverOverwritesNewer ==
  [][\A i \in Session \ {"none"} :
       (IsSome(remote[i]) /\ IsSome(remote'[i]) /\ remote'[i] # remote[i])
         => Get(remote'[i]).rev >= Get(remote[i]).rev]_vars

\* C3: at most one remote upsert is outstanding at any time, over all contexts
\* and all triggers.
C3_AtMostOnePushInFlight == Cardinality(upsertsInFlight) <= 1

\* C4: two contexts are never both inside the protected section on locks they
\* acquired less than SYNC_LOCK_TIMEOUT apart.
C4_AtMostOneAcquires ==
  \A c, d \in Ctx, k, j \in CallSlot :
    (c # d /\ tab[c].open /\ tab[d].open
       /\ tab[c].ipc[k] \in Protected /\ tab[d].ipc[j] \in Protected
       /\ tab[c].inow[k] <= tab[d].inow[j])
      => tab[d].inow[j] - tab[c].inow[k] >= SYNC_LOCK_TIMEOUT

\* C5 as stated: when a reconcile returns because the lock was refused, the
\* context's local data is in the Pending-Change Buffer.
C5_LoserDataBuffered ==
  [][\A c \in Ctx :
       RefusedStep(c) => getPendingSnapshot(ls') = Some(getSnapshot(tab'[c]))]_vars

\* C6 as stated: acquireSyncLock returns false exactly when a record younger
\* than 5000 ms exists, and then leaves the record as it is; in every other
\* case it writes a record stamped with the current time and returns true.
\* (With the storage full the catch block of lines 58-60 returns true and no
\* record is written.)
C6_AcquireSemantics ==
  ret.op = "acquire"
    => /\ (ret.result = Some(FALSE))
            <=> (IsSome(ret.before) /\ ret.at - Get(ret.before) < 5000)
       /\ (ret.result = Some(FALSE)) => ls.lock = ret.before
       /\ (ret.result = Some(TRUE)) => ls.lock = Some(ret.at)

\* C7: whenever a context leaves the protected section, by whichever exit, the
\* lock record is gone.
C7_LockReleasedOnExit ==
  [][\A c \in Ctx, k \in CallSlot :
       (tab[c].ipc[k] \in Protected /\ tab'[c].ipc[k] \notin Protected) => ls'.lock = None]_vars

\* the protected section was left through the catch block
C7_Witness ==
  \E c \in Ctx : tab[c].open /\ tab[c].exit = "failed" /\ NoCall(c) /\ ls.lock = None

\* C8: after two writes the buffer holds exactly one snapshot, the second, and
\* a read returns it.
C8_IdempotentBuffering ==
  /\ Len(ls.pend) <= 1
  /\ ret.op = "set" => ls.pend = << Get(ret.arg) >>
  /\ (ret.op = "get" /\ ret.op1 = "set") => ret.result = ret.arg1

\* A then a different B were written, and the read returned B
C8_Witness ==
  /\ ret.op = "get" /\ ret.op1 = "set" /\ ret.op2 = "set"
  /\ ret.arg1 # ret.arg2
  /\ ret.result = ret.arg1 /\ Len(ls.pend) = 1

\* C10: a context shows the status ok only while the buffer is empty.
C10_OkImpliesBufferEmpty ==
  \A c \in Ctx : (tab[c].open /\ tab[c].cloudStatus = "ok") => ls.pend = << >>

\* C11: a context shows the status offline or error only while the buffer
\* holds a snapshot.
C11_OfflineOrErrorImpliesBuffered ==
  \A c \in Ctx :
    (tab[c].open /\ tab[c].cloudStatus \in {"offline", "error"}) => ls.pend # << >>

\* in this step the sync engine of context c issues a fetch or an upsert to
\* the Remote Authority
IssuesRemoteCall(c) ==
  \/ \E k \in CallSlot :
       \/ /\ tab[c].ipc[k] \notin {"pull", "pushUpsert", "seed"}
          /\ tab'[c].ipc[k] \in {"pull", "pushUpsert", "seed"}
       \/ tab[c].ipc[k] = "pull" /\ tab'[c].ipc[k] = "seed"
  \/ \E p \in PushSlot : tab[c].ppc[p] # "upsert" /\ tab'[c].ppc[p] = "upsert"

\* C12: no fetch and no upsert is issued by a context whose cloudMode is guest.
C12_GuestIssuesNoRemoteCall ==
  [][\A c \in Ctx : IssuesRemoteCall(c) => tab[c].cloudMode = "cloud"]_vars

(***************************************************************************)
(* pushSnapshot's settlement on its own: one outstanding upsert of any     *)
(* document is answered with success or with any failure.                  *)
(***************************************************************************)
SettleMessages ==
  {{}, {"permission denied"}} \cup
  {{m} : m \in {"failed to fetch", "err_name_not_resolved", "networkerror",
                "internal server error", "bad gateway", "service unavailable",
                "gateway timeout", "timeout", "econnrefused", "econnreset"}}

SettleErrors == {Err(m, st) : m \in SettleMessages, st \in {0, 400, 499, 500, 503, 599, 600}}

InitSettle ==
  /\ online \in BOOLEAN
  /\ now = 0
  /\ session = "anon"
  /\ remote = noRows
  /\ ls \in {emptyStorage, setPendingSnapshot(emptyStorage, cloudDoc)}
  /\ \E snapshot \in BufferDocs :
       tab = [c \in Ctx |->
                IF c = "tabA"
                THEN [startPush(hydrate(emptyStorage), "local", snapshot) EXCEPT
                        !.cloudMode = "cloud", !.initializedRef = TRUE, !.initWanted = 0,
                        !.cloudStatus = "syncing", !.ppc[<< "local", 1 >>] = "upsert"]
                ELSE closed(emptyStorage)]
  /\ used = 0
  /\ limit = 0
  /\ ret = noCall

\* pushSnapshot lines 98-105 with the answer of upsertCloudState recorded
PushSettles ==
  LET t == tab["tabA"]
      snapshot == Get(t.psnap[<< "local", 1 >>])
  IN /\ t.ppc[<< "local", 1 >>] = "upsert"
     /\ \E result \in {None} \cup {Some(e) : e \in SettleErrors} :
          LET w1 == pushSnapshotSettled(World(t, ls), snapshot, result)
          IN /\ Commit("tabA", World(endPush(w1.t, << "local", 1 >>), w1.ls))
             /\ remote' = IF result = None THEN upsertCloudState(remote, session, snapshot)
                          ELSE remote
             /\ ret' = called(IF result = None THEN "pushed" ELSE "pushFailed",
                              result, Some(snapshot))
     /\ UNCHANGED << online, now, session, used, limit >>

NextSettle == PushSettles

SpecSettle == InitSettle /\ [][NextSettle]_vars

\* the failures section 4.8 classes as connectivity or server-transient
TransientFailure(err) ==
  \/ ~online
  \/ err.status \in 500..599
  \/ err.msg \cap {"failed to fetch", "err_name_not_resolved", "networkerror",
                   "internal server error", "bad gateway", "service unavailable",
                   "gateway timeout", "timeout", "econnrefused", "econnreset"} # {}

\* C13: when the upsert of a push fails, the status is offline for a
\* connectivity or server-transient failure and error for any other, and the
\* buffer holds the snapshot that was being pushed.
C13_FailedPushBuffers ==
  ret.op = "pushFailed"
    => /\ tab["tabA"].cloudStatus =
            (IF TransientFailure(Get(ret.arg)) THEN "offline" ELSE "error")
       /\ ls.pend = << Get(ret.result) >>

\* an HTTP 503 with the device reachable gave offline and the snapshot is buffered
C13_Witness ==
  /\ ret.op = "pushFailed" /\ online
  /\ Get(ret.arg) = Err({}, 503)
  /\ tab["tabA"].cloudStatus = "offline"
  /\ ls.pend = << Get(ret.result) >> /\ Get(ret.result) # cloudDoc

\* in this step a push of context c returns with its upsert failed
PushFailsStep(c) ==
  \/ \E k \in CallSlot :
       tab[c].ipc[k] = "pushUpsert" /\ tab'[c].ipc[k] = "idle" /\ tab'[c].exit = "pushFailed"
  \/ \E p \in PushSlot :
       tab[c].ppc[p] = "upsert" /\ tab'[c].ppc[p] = "idle" /\ tab'[c].cloudStatus # "ok"

\* after this step nothing is running or scheduled in context c
QuiescentAfter(c) ==
  /\ tab'[c].ipc = idleCalls /\ tab'[c].initWanted = 0
  /\ tab'[c].anonWait = 0 /\ tab'[c].hmrWait = 0
  /\ tab'[c].taskPc \in {"none", "threw"}
  /\ tab'[c].ppc = idleSlots
  /\ tab'[c].checking = 0 /\ ~tab'[c].armed
  /\ tab'[c].netq = << >> /\ tab'[c].authq = << >> /\ tab'[c].completing = << >>

\* C14: a failed push is retried in the background.  When a push fails with
\* the device reachable and leaves nothing else running in its context, the
\* guards of the 30-second timer hold, so that its next tick pushes the
\* buffered snapshot (the online listener cannot act while the device stays
\* reachable).
C14_FailedPushIsRetried ==
  [][\A c \in Ctx :
       (PushFailsStep(c) /\ online' /\ tab'[c].cloudMode = "cloud" /\ QuiescentAfter(c))
         => retryWanted(tab'[c], ls')]_vars

(***************************************************************************)
(* C15: Scenario A, a setting toggled while the device is offline          *)
(***************************************************************************)
\* the last event was a local mutation of context c in cloud mode, biometric
\* authentication is on after it, the device is offline, and everything the
\* mutation started in c has run
ToggledOffline(c) ==
  /\ tab[c].open /\ ~online /\ tab[c].cloudMode = "cloud"
  /\ tab[c].lastEdit > 0 /\ tab[c].lastEdit = used
  /\ IsSome(tab[c].security) /\ Get(tab[c].security).biometricEnabled
  /\ Quiescent(c)

\* C15: after a setting is toggled in cloud mode with the device offline, the
\* status is offline, the buffer holds the snapshot taken after the toggle,
\* the durable store holds the toggled state, and no upsert is in flight.
C15_OfflineToggleIsBuffered ==
  \A c \in Ctx :
    ToggledOffline(c)
      => /\ tab[c].cloudStatus = "offline"
         /\ ls.pend = Some(getSnapshot(tab[c]))
         /\ IsSome(ls.state)
         /\ Get(ls.state).rev = tab[c].lastEdit
         /\ Get(ls.state).security = tab[c].security
         /\ upsertsOf(c) = {}

(***************************************************************************)
(* C16: Scenario B, the device comes back online with a buffered change    *)
(***************************************************************************)
\* in this step context c calls pushSnapshot with the buffered snapshot from
\* its online listener
DrainStartsStep(c) ==
  \E k \in CallSlot :
    /\ tab[c].ppc[<< "drain", k >>] = "idle" /\ tab'[c].ppc[<< "drain", k >>] = "net"
    /\ tab'[c].psnap[<< "drain", k >>] = ls.pend

\* in this step the upsert of the online listener's push in c is confirmed
\* (a failure reported with a session and the device reachable is counted)
DrainConfirmedStep(c) ==
  /\ \E k \in CallSlot :
       tab[c].ppc[<< "drain", k >>] = "upsert" /\ tab'[c].ppc[<< "drain", k >>] = "idle"
  /\ session # "none" /\ online /\ used' = used

\* initForSession of context c is still to run, or is running and has not yet
\* looked at the buffer or is pushing what it found there
InitWillDrain(c) ==
  \/ tab[c].initWanted > 0
  \/ \E k \in CallSlot :
       tab[c].ipc[k] \in {"getSession", "anon", "net1", "lock", "pushNet", "pushUpsert"}

\* in this step the listener of context c handles the connectivity event at
\* the head of its queue
HandlesNetworkStep(c, isOnline) ==
  /\ tab[c].open
  /\ tab[c].netq # << >> /\ Head(tab[c].netq) = isOnline
  /\ tab'[c].netq = Tail(tab[c].netq)

\* C16: whenever the listener of an open context in cloud mode handles the
\* device coming online while a change is buffered, the context starts a push
\* of the buffered snapshot, unless its initForSession is about to push the
\* buffer itself; and when that push is confirmed the buffer is empty and the
\* status is ok.
C16_OnlineDrainsBuffer ==
  [][\A c \in Ctx :
       /\ (/\ HandlesNetworkStep(c, TRUE) /\ tab[c].cloudMode = "cloud"
           /\ IsSome(ls.pend) /\ ~InitWillDrain(c))
            => DrainStartsStep(c)
       /\ DrainConfirmedStep(c)
            => (ls'.pend = None /\ tab'[c].cloudStatus = "ok")]_vars

(***************************************************************************)
(* C17: Scenario D, SIGNED_OUT and the was-authenticated breadcrumb        *)
(***************************************************************************)
\* The handler on its own: SIGNED_OUT reaches an initialized context in
\* cloud mode, over a storage with or without the OAuth-transition marker (at
\* ages on both sides of the window), the was-authenticated breadcrumb, a
\* buffered snapshot, a stored state and the onboarding-seen key, full or not;
\* then signInAnonymously() answers.  ret records the marker and the
\* breadcrumb the handler found.
MaxSignOutEvents == 2

\* ages of the OAuth-transition marker when the event arrives, in ms
MarkerAges == {0, OAUTH_TRANSITION_WINDOW - 1, OAUTH_TRANSITION_WINDOW,
               OAUTH_TRANSITION_WINDOW + 1}

InitSignOut ==
  /\ online \in BOOLEAN
  /\ now = 200000
  /\ session \in Session \ {"none"}
  /\ remote = existingAccount
  /\ \E oauth \in {None} \cup {Some(now - age) : age \in MarkerAges}, wasAuth \in BOOLEAN,
        pend \in {None, Some(cloudDoc)}, seen \in BOOLEAN, full \in BOOLEAN :
       /\ ls = [emptyStorage EXCEPT !.oauth = oauth, !.wasAuth = wasAuth, !.pend = pend,
                                    !.state = Some(cloudDoc), !.seen = seen, !.full = full]
       /\ tab = [c \in Ctx |->
                   IF c = "tabA"
                   THEN [hydrate(ls) EXCEPT
                           !.cloudMode = "cloud", !.userEmail = (session = "auth"),
                           !.cloudStatus = "ok", !.initializedRef = TRUE,
                           !.cloudSyncReady = TRUE, !.initWanted = 0]
                   ELSE closed(emptyStorage)]
  /\ used = 0
  /\ limit = MaxSignOutEvents
  /\ ret = noCall

SignOutHandled ==
  /\ AuthHandled("tabA")
  /\ ret' = called(Head(tab["tabA"].authq).event, ls.oauth, Some(ls.wasAuth))

NextSignOut ==
  \/ SignedOut
  \/ SignOutHandled
  \/ SignedOutAnonSignIn("tabA")

SpecSignOut == InitSignOut /\ [][NextSignOut]_vars

\* in this step the handler of context c handles a SIGNED_OUT event
SignedOutStep(c) ==
  /\ tab[c].open /\ tab[c].authq # << >> /\ Head(tab[c].authq).event = "SIGNED_OUT"
  /\ tab'[c].authq = Tail(tab[c].authq)

\* after the step, the buffer and the onboarding-seen key are gone, context c
\* holds the default document, the Durable Local Store holds it too (nothing
\* when the storage is full), c is in guest mode, idle and uninitialized, and
\* one more signInAnonymously() is awaited
WipedAfter(c) ==
  /\ StoredDoc(ls'.state) = IF ls.full THEN None
                            ELSE Some(Doc(Some(FALSE), Some(defaultSecurity), 0))
  /\ ls'.pend = None /\ ~ls'.seen
  /\ getSnapshot(tab'[c]) = Doc(Some(FALSE), Some(defaultSecurity), 0)
  /\ tab'[c].cloudMode = "guest" /\ tab'[c].cloudStatus = "idle"
  /\ ~tab'[c].initializedRef
  /\ tab'[c].anonWait = tab[c].anonWait + 1

\* after the step, the data in storage and in context c are as before, and c
\* is in guest mode with the session-expired flag set and no sign-in requested
ExpiredAfter(c) ==
  /\ ls'.state = ls.state /\ ls'.pend = ls.pend /\ ls'.seen = ls.seen
  /\ getSnapshot(tab'[c]) = getSnapshot(tab[c])
  /\ tab'[c].sessionExpired
  /\ tab'[c].cloudMode = "guest" /\ tab'[c].cloudStatus = "idle"
  /\ tab'[c].anonWait = tab[c].anonWait

\* C17 as stated: a SIGNED_OUT with the was-authenticated breadcrumb present
\* wipes the local state to the default document, clears the onboarding flag
\* and requests a new anonymous session.
C17_SignOutWithBreadcrumbWipes ==
  [][\A c \in Ctx : (SignedOutStep(c) /\ ls.wasAuth) => WipedAfter(c)]_vars

\* C17 amended: a SIGNED_OUT that arrives less than 120000 ms after the
\* OAuth-transition marker was written changes nothing.  Otherwise the marker
\* is removed and nothing else in storage but the data named here changes:
\* with the was-authenticated breadcrumb present the local state is kept and
\* the context goes to guest mode, idle, with the session-expired flag set and
\* no sign-in requested; with the breadcrumb absent the local state is wiped
\* to the default document, the buffer and the onboarding flag are cleared,
\* the context goes to guest mode, idle and uninitialized, and one new
\* anonymous session is requested.
C17_SignOutWipesWithoutBreadcrumb ==
  [][\A c \in Ctx :
       SignedOutStep(c) =>
         IF IsSome(ls.oauth) /\ now - Get(ls.oauth) < 120000
         THEN ls' = ls /\ tab'[c] = [tab[c] EXCEPT !.authq = Tail(@)]
         ELSE /\ ls' = [ls EXCEPT !.oauth = None, !.state = ls'.state,
                                  !.pend = ls'.pend, !.seen = ls'.seen]
              /\ IF ls.wasAuth THEN ExpiredAfter(c) ELSE WipedAfter(c)]_vars

\* a SIGNED_OUT that found a marker older than the window and no breadcrumb
\* has been handled: the marker is gone, the data is wiped and an anonymous
\* session is asked for
C17_Witness ==
  /\ ret.op = "SIGNED_OUT" /\ IsSome(ret.arg) /\ ret.at - Get(ret.arg) > 120000
  /\ ret.result = Some(FALSE)
  /\ ls.oauth = None /\ ls.pend = None /\ ~ls.seen
  /\ tab["tabA"].anonWait = 1 /\ tab["tabA"].cloudMode = "guest"
  /\ getSnapshot(tab["tabA"]) = Doc(Some(FALSE), Some(defaultSecurity), 0)

(***************************************************************************)
(* The start of initForSession with a pending-OTP breadcrumb in storage    *)
(* (lines 111-212).  Spec and SpecTabs start without the breadcrumb.       *)
(***************************************************************************)
\* environment events in the runs of the start with a breadcrumb: getSession()
\* may time out once
MaxOtpEvents == 1

\* ages of the breadcrumb at application start, in ms
OtpAges == {0, 300000, 599999, 600000, 600001, 660000}

\* lines 196-205: the breadcrumb is removed and signOut() is awaited
InitOtpSignOut(c) ==
  \E k \in CallSlot, answered \in GetSessionAnswers :
  LET t == tab[c]
  IN /\ t.ipc[k] = "getSession" /\ betweenTurns(c)
     /\ pendingOtpAbandoned(sessionSeen(answered, ls), ls, now)
     /\ Commit(c, World([t EXCEPT !.ipc[k] = "signOut"], [ls EXCEPT !.otp = None]))
     /\ used' = (IF answered THEN used ELSE used + 1)
     /\ UNCHANGED << online, now, session, remote, limit, ret >>

\* the answers of signOut(): the session is ended, the call returns an error
\* with the session kept, or the call is rejected
SignOutAnswers ==
  IF ~online THEN {"error", "rejected"}
  ELSE IF used < limit THEN {"ended", "error", "rejected"} ELSE {"ended"}

\* lines 205-207: signOut() has answered.  When it ended the session, the
\* SIGNED_OUT handler of the page (lines 453-503) has run inside it and the
\* other pages are sent the event; then the page is reloaded.  When it is
\* rejected, initForSession is rejected at line 205 and nothing is reloaded.
InitOtpReload(c) ==
  \E k \in CallSlot, answer \in SignOutAnswers :
  LET t == tab[c]
      w == IF answer = "ended" THEN onSignedOut(World(t, ls)) ELSE World(t, ls)
      page == IF answer = "rejected"
              THEN resumeTask([t EXCEPT !.ipc[k] = "idle", !.exit = "threw"])
              ELSE [reload(t, w.ls) EXCEPT !.exit = "otpSignOut"]
  IN /\ t.ipc[k] = "signOut" /\ betweenTurns(c)
     /\ session' = IF answer = "ended" THEN "none" ELSE session
     /\ tab' = [d \in Ctx |->
                  IF d = c THEN page
                  ELSE IF answer = "ended" THEN queueAuthEvent(tab[d], SIGNED_OUT)
                  ELSE tab[d]]
     /\ ls' = w.ls
     /\ used' = (IF answer = "ended" THEN used ELSE used + 1)
     /\ UNCHANGED << online, now, remote, limit, ret >>

InitOtp ==
  /\ online \in BOOLEAN
  /\ now = 700000
  /\ session \in Session
  /\ remote \in {noRows, existingAccount}
  /\ \E otp \in {None} \cup {Some(now - age) : age \in OtpAges}, wasAuth \in BOOLEAN,
        tokenV1 \in BOOLEAN :
       ls = [emptyStorage EXCEPT !.otp = otp, !.wasAuth = wasAuth, !.tokenV1 = tokenV1]
  /\ tab = [c \in Ctx |-> IF c = "tabA" THEN hydrate(emptyStorage) ELSE closed(emptyStorage)]
  /\ used = 0
  /\ limit = MaxOtpEvents
  /\ ret = noCall

NextOtp ==
  \/ InitNetStatus("tabA")
  \/ InitGetSession("tabA")
  \/ InitOtpSignOut("tabA")
  \/ InitOtpReload("tabA")

SpecOtp == InitOtp /\ [][NextOtp]_vars

\* in this step a call of initForSession by context c returns from the offline
\* start of lines 111-168
OfflineStartStep(c) ==
  /\ tab'[c].ipc = tab[c].ipc /\ tab'[c].exit = "offlineStart"
  /\ \/ tab'[c].initWanted < tab[c].initWanted
     \/ tab[c].taskPc = "wanted" /\ tab'[c].taskPc # "wanted"

\* in this step initForSession of context c passes the point of the OTP check:
\* it returns from the offline start, or getSession() has answered
PassesOtpCheckStep(c) ==
  \/ OfflineStartStep(c)
  \/ \E k \in CallSlot : tab[c].ipc[k] = "getSession" /\ tab'[c].ipc[k] # "getSession"

\* in this step context c removes the breadcrumb and calls signOut(), after
\* which it reloads
ForcedSignOutStep(c) ==
  /\ ls'.otp = None
  /\ \E k \in CallSlot : tab[c].ipc[k] = "getSession" /\ tab'[c].ipc[k] = "signOut"

\* in this step initForSession of c goes on to mode selection with the
\* session and the breadcrumb kept
ContinuesStep(c) ==
  /\ session' = session /\ ls'.otp = ls.otp
  /\ tab'[c].cloudMode = "cloud"
  /\ \A k \in CallSlot : tab'[c].ipc[k] # "signOut"

\* C18: at application start with a session and a pending-verification
\* breadcrumb, initForSession signs out and reloads when the breadcrumb is
\* older than ten minutes, and goes on to mode selection when it is younger.
C18_AbandonedOtpSignsOut ==
  [][\A c \in Ctx :
       (PassesOtpCheckStep(c) /\ session # "none" /\ IsSome(ls.otp))
         => /\ now - Get(ls.otp) > PENDING_OTP_MAX_AGE => ForcedSignOutStep(c)
            /\ now - Get(ls.otp) < PENDING_OTP_MAX_AGE => ContinuesStep(c)]_vars

(***************************************************************************)
(* storage.service on its own: loadState, saveState and clearState called  *)
(* in any order, starting from any stored item.                            *)
(***************************************************************************)
\* schemaVersion values a stored record may carry
StoredVersions == {0, 1, 2, 3}

\* records without a schemaVersion field
UnversionedRecords ==
  {[welcomeSeen |-> d.welcomeSeen, security |-> d.security, rev |-> d.rev] : d \in BufferDocs}

StoredItems ==
  {None, Some(unparsable)}
    \cup {Some([d EXCEPT !.schemaVersion = v]) : d \in BufferDocs, v \in StoredVersions}
    \cup {Some(r) : r \in UnversionedRecords}

InitLoad ==
  /\ online = TRUE
  /\ now = 0
  /\ session = "none"
  /\ remote = noRows
  /\ \E item \in StoredItems : ls = [emptyStorage EXCEPT !.state = item]
  /\ tab = [c \in Ctx |-> closed(emptyStorage)]
  /\ used = 0
  /\ limit = 0
  /\ ret = noCall

StateLoad ==
  /\ ret' = called("load", ls.state, loadState(ls))
  /\ UNCHANGED << online, now, session, remote, ls, tab, used, limit >>

StateSave ==
  \E state \in BufferDocs :
    /\ ls' = saveState(ls, state)
    /\ ret' = called("save", Some(state), None)
    /\ UNCHANGED << online, now, session, remote, tab, used, limit >>

StateClear ==
  /\ ls' = clearState(ls)
  /\ ret' = called("clear", None, None)
  /\ UNCHANGED << online, now, session, remote, tab, used, limit >>

NextLoad == StateLoad \/ StateSave \/ StateClear

SpecLoad == InitLoad /\ [][NextLoad]_vars

\* the stored item parses to a record whose schemaVersion is the supported one
SupportedRecord(item) ==
  /\ IsSome(item) /\ Get(item) # unparsable
  /\ "schemaVersion" \in DOMAIN Get(item)
  /\ Get(item).schemaVersion = SCHEMA_VERSION

\* C19: loadState returns the stored record when it parses and its
\* schemaVersion is 1, and null for every other stored item (nothing stored,
\* unparsable text, schemaVersion missing or different from 1).
C19_LoadValidatesSchemaVersion ==
  ret.op = "load"
    => ret.result = (IF SupportedRecord(ret.arg) THEN ret.arg ELSE None)

(***************************************************************************)
(* app.store on its own: one context's store over the Durable Local Store, *)
(* with replaceAllData, the two setters and a restart (the store is built  *)
(* again from storage) in any order.                                       *)
(***************************************************************************)
InitStore ==
  /\ online = TRUE
  /\ now = 0
  /\ session = "none"
  /\ remote = noRows
  /\ \E item \in {None} \cup {Some([d EXCEPT !.schemaVersion = v]) :
                                  d \in BufferDocs, v \in {SCHEMA_VERSION, SCHEMA_VERSION + 1}},
        seen \in BOOLEAN :
       /\ ls = [emptyStorage EXCEPT !.state = item, !.seen = seen]
       /\ tab = [c \in Ctx |-> IF c = "tabA" THEN hydrate(ls) ELSE closed(emptyStorage)]
  /\ used = 0
  /\ limit = 0
  /\ ret = noCall

StoreReplaceAllData ==
  \E data \in BufferDocs :
    LET w == replaceAllData(World(tab["tabA"], ls), data)
    IN /\ Commit("tabA", w)
       /\ ret' = called("replaceAllData", Some(data), Some(getSnapshot(w.t)))
       /\ UNCHANGED << online, now, session, remote, used, limit >>

StoreSetWelcomeSeen ==
  \E v \in BOOLEAN :
    /\ Commit("tabA", setWelcomeSeen(World(tab["tabA"], ls), v))
    /\ ret' = called("setWelcomeSeen", None, None)
    /\ UNCHANGED << online, now, session, remote, used, limit >>

StoreToggleBiometricAuth ==
  /\ Commit("tabA", toggleBiometricAuth(World(tab["tabA"], ls)))
  /\ ret' = called("toggleBiometricAuth", None, None)
  /\ UNCHANGED << online, now, session, remote, used, limit >>

\* the application is restarted: create() runs again over the same storage
StoreRestart ==
  /\ tab' = [tab EXCEPT !["tabA"] = hydrate(ls)]
  /\ ret' = called("restart", None, Some(getSnapshot(hydrate(ls))))
  /\ UNCHANGED << online, now, session, remote, ls, used, limit >>

NextStore ==
  \/ StoreReplaceAllData
  \/ StoreSetWelcomeSeen
  \/ StoreToggleBiometricAuth
  \/ StoreRestart

SpecStore == InitStore /\ [][NextStore]_vars

\* the content of a snapshot with absent fields read as their defaults
Content(doc) ==
  [welcomeSeen |-> OrElse(doc.welcomeSeen, FALSE),
   security |-> OrElse(doc.security, defaultSecurity)]

\* C20: right after replaceAllData(S) the snapshot of the store is S with
\* absent fields read as defaults and the durable record is S; and a restart
\* that follows the call builds a store with that same snapshot.
C20_ReplaceAllDataOverwritesBoth ==
  /\ ret.op = "replaceAllData"
       => /\ Content(Get(ret.result)) = Content(Get(ret.arg))
          /\ IsSome(ls.state) /\ Content(Get(ls.state)) = Content(Get(ret.arg))
  /\ (ret.op = "restart" /\ ret.op1 = "replaceAllData")
       => Content(Get(ret.result)) = Content(Get(ret.arg1))

(***************************************************************************)
(* Spec with a storage that can fill up: from then on every                *)
(* localStorage.setItem throws QuotaExceededError.                         *)
(***************************************************************************)
StorageFills ==
  /\ ~ls.full /\ used < limit
  /\ ls' = [ls EXCEPT !.full = TRUE]
  /\ used' = used + 1 /\ UNCHANGED << limit, ret >>
  /\ UNCHANGED << online, now, session, remote, tab >>

NextQuota ==
  \/ Next
  \/ StorageFills

SpecQuota == Init /\ [][NextQuota]_vars

\* in this step a call of context c into the engine ends on a failed remote
\* or storage call
FailureStep(c) ==
  \/ PushFailsStep(c)
  \/ \E k \in CallSlot :
       tab[c].ipc[k] # "idle" /\ tab'[c].ipc[k] = "idle" /\ tab'[c].exit \in {"failed", "threw"}

\* C21: no failure escapes the engine.  Every call that ends on a failed
\* remote or storage call returns normally with the status set to offline or
\* error and with a snapshot in the Pending-Change Buffer.
C21_FailuresEndInStatusAndBuffer ==
  [][\A c \in Ctx :
       FailureStep(c)
         => /\ tab'[c].exit # "threw"
            /\ tab'[c].cloudStatus \in {"offline", "error"}
            /\ IsSome(ls'.pend)]_vars

(***************************************************************************)
(* One context with connectivity changes and crashes, under the scheduling *)
(* of the event loop: every continuation that is ready to run (an answered *)
(* await, a due timer) does run.                                           *)
(***************************************************************************)
MaxLiveEvents == 2

\* the page dies and is loaded again: the store is built from storage, the
\* refs and pending continuations of the old page are gone, the lock record
\* stays as it was
Crash(c) ==
  /\ tab[c].open /\ used < limit
  /\ tab' = [tab EXCEPT ![c] = reload(@, ls)]
  /\ used' = used + 1 /\ UNCHANGED << limit, ret >>
  /\ UNCHANGED << online, now, session, remote, ls >>

InitLive ==
  /\ online \in BOOLEAN
  /\ now = 0
  /\ session \in Session
  /\ remote \in {noRows, existingAccount}
  /\ ls = emptyStorage
  /\ tab = [c \in Ctx |-> IF c = "tabA" THEN hydrate(emptyStorage) ELSE closed(emptyStorage)]
  /\ used = 0
  /\ limit = MaxLiveEvents
  /\ ret = noCall

NextLive ==
  \/ Engine("tabA")
  \/ GoOnline
  \/ GoOffline
  \/ Crash("tabA")

\* the steps of context c that the event loop runs by itself: everything in
\* Engine(c) but the user's mutation (no identity event is queued to a single
\* page without sign-in or sign-out, so its listener has nothing to run)
Continuation(c) ==
  \/ InitNetStatus(c)
  \/ InitGetSession(c)
  \/ InitAnonSignIn(c)
  \/ InitNetRecheck(c)
  \/ InitAcquireLock(c)
  \/ InitPushNet(c)
  \/ InitPushDone(c)
  \/ InitPullDone(c)
  \/ InitSubscriptionDone(c)
  \/ InitSeedDone(c)
  \/ \E p \in PushSlot : PushNet(c, p)
  \/ \E p \in PushSlot : PushDone(c, p)
  \/ RetryTick(c)
  \/ DebounceCheck(c)
  \/ DebounceFire(c)
  \/ NetListener(c)
  \/ HandleCompleteDone(c)

SpecLive == InitLive /\ [][NextLive]_vars /\ WF_vars(Continuation("tabA"))

\* C22: the status machine converges.  Whenever the status of a context is
\* syncing it is later ok, offline or error, also when attempts overlap and
\* when the page crashes during the attempt and is loaded again.
C22_SyncingConverges ==
  \A c \in {"tabA"} :
    (tab[c].cloudStatus = "syncing") ~> (tab[c].cloudStatus \in {"ok", "offline", "error"})

(***************************************************************************)
(* C23: a push that finds connectivity absent sets the status to offline,  *)
(* stores the snapshot it was given in the pending buffer and returns: no  *)
(* upsert is issued, the remote rows stay as they are and the status does  *)
(* not become syncing.  Stated of every step that takes a push past its    *)
(* connectivity check, for the pushes of the triggers and for the push of  *)
(* initForSession.                                                         *)
(***************************************************************************)
PushChecksOffline(c) ==
  /\ ~online
  /\ \/ \E p \in DOMAIN tab[c].ppc : tab[c].ppc[p] = "net" /\ tab'[c].ppc[p] # "net"
     \/ \E k \in CallSlot : tab[c].ipc[k] = "pushNet" /\ tab'[c].ipc[k] # "pushNet"

PushDeferred(c) ==
  /\ \A p \in DOMAIN tab[c].ppc :
       (tab[c].ppc[p] = "net" /\ tab'[c].ppc[p] # "net")
         => tab'[c].ppc[p] = "idle" /\ ls'.pend = tab[c].psnap[p]
  /\ \A k \in CallSlot :
       (tab[c].ipc[k] = "pushNet" /\ tab'[c].ipc[k] # "pushNet")
         => tab'[c].ipc[k] = "idle" /\ ls'.pend = tab[c].isnap[k]
  /\ tab'[c].cloudStatus = "offline"
  /\ remote' = remote

\* C23: every push that finds the device offline returns with the status
\* offline and its snapshot buffered, having issued no upsert.
C23_OfflinePushBuffers ==
  [][\A c \in Ctx : PushChecksOffline(c) => PushDeferred(c)]_vars

\* a push of initForSession has returned at its connectivity check
C23_Witness ==
  \E c \in Ctx : /\ tab[c].exit = "pushDeferred" /\ ~online
                 /\ tab[c].cloudStatus = "offline" /\ IsSome(ls.pend)

(***************************************************************************)
(* C24: a push that finds connectivity present sets the status to syncing  *)
(* before the upsert is issued, and when the upsert is confirmed the push  *)
(* returns with the buffer empty, the status ok and the snapshot in the    *)
(* remote row of the session.                                              *)
(***************************************************************************)
\* the step that takes a push of c past its connectivity check while online
PushChecksOnline(c) ==
  /\ online
  /\ \/ \E p \in DOMAIN tab[c].ppc : tab[c].ppc[p] = "net" /\ tab'[c].ppc[p] # "net"
     \/ \E k \in CallSlot : tab[c].ipc[k] = "pushNet" /\ tab'[c].ipc[k] # "pushNet"

PushIssued(c) ==
  /\ \A p \in DOMAIN tab[c].ppc :
       (tab[c].ppc[p] = "net" /\ tab'[c].ppc[p] # "net") => tab'[c].ppc[p] = "upsert"
  /\ \A k \in CallSlot :
       (tab[c].ipc[k] = "pushNet" /\ tab'[c].ipc[k] # "pushNet") => tab'[c].ipc[k] = "pushUpsert"
  /\ tab'[c].cloudStatus = "syncing"
  /\ remote' = remote /\ ls'.pend = ls.pend

\* the step in which the upsert of a push of c is confirmed (a failure
\* reported with a session and the device reachable is counted)
PushConfirmed(c, snapshot) ==
  /\ session # "none" /\ online /\ used' = used
  /\ \/ \E p \in DOMAIN tab[c].ppc :
          tab[c].ppc[p] = "upsert" /\ tab'[c].ppc[p] = "idle" /\ tab[c].psnap[p] = << snapshot >>
     \/ \E k \in CallSlot :
          /\ tab[c].ipc[k] = "pushUpsert" /\ tab'[c].ipc[k] = "idle"
          /\ tab[c].isnap[k] = << snapshot >>

\* the snapshots the pushes of c are carrying
PushesInFlight(c) ==
  {Get(x) : x \in ({tab[c].isnap[k] : k \in CallSlot}
                     \cup {tab[c].psnap[p] : p \in DOMAIN tab[c].ppc}) \ {None}}

\* C24: every push that finds the device online shows syncing before its
\* upsert, and a confirmed upsert leaves the buffer empty and the status ok.
C24_OnlinePushSyncsThenClears ==
  [][\A c \in Ctx :
       /\ PushChecksOnline(c) => PushIssued(c)
       /\ \A s \in PushesInFlight(c) :
            PushConfirmed(c, s) =>
              /\ ls'.pend = None
              /\ tab'[c].cloudStatus = "ok"
              /\ remote'[session] = << s >>]_vars

\* the push of initForSession has returned confirmed
C24_Witness ==
  \E c \in Ctx : /\ tab[c].exit = "pushed" /\ tab[c].cloudStatus = "ok"
                 /\ ls.pend = None /\ IsSome(remote[session])

(***************************************************************************)
(* C25: whenever initForSession resolves an identity and finds the device  *)
(* offline, at its first connectivity check (the stored session) or at the *)
(* check after getSession(), it returns with cloudMode cloud, the status   *)
(* offline and the in-memory snapshot written to the pending buffer, and   *)
(* it issues no remote call.                                               *)
(***************************************************************************)
\* the step in which initForSession of c returns at one of its offline
\* branches with an identity resolved
InitReturnsOffline(c) ==
  \/ OfflineStartStep(c) /\ session # "none"
  \/ \E k \in CallSlot :
       tab[c].ipc[k] = "net1" /\ tab'[c].ipc[k] = "idle" /\ tab'[c].exit = "offline"

\* C25: an initForSession that returns offline with an identity has set
\* cloudMode cloud and status offline, buffered the snapshot, called nothing.
C25_OfflineReconcileBuffers ==
  [][\A c \in Ctx :
       InitReturnsOffline(c) =>
         /\ tab'[c].cloudMode = "cloud"
         /\ tab'[c].cloudStatus = "offline"
         /\ ls'.pend = << getSnapshot(tab'[c]) >>
         /\ remote' = remote
         /\ ~IssuesRemoteCall(c)]_vars

(***************************************************************************)
(* C26: when initForSession has resolved an identity with the device       *)
(* online and acquireSyncLock refuses the lock, it returns with the status *)
(* ok and the gate initialized and ready, raises nothing, and leaves the   *)
(* lock record, the pending buffer, the rest of the storage, the cloud     *)
(* mode, the in-memory snapshot and the remote rows as they were.          *)
(***************************************************************************)
\* the step in which acquireSyncLock answers false to context c
LockRefusedStep(c) ==
  \E k \in CallSlot :
    /\ tab[c].ipc[k] = "lock" /\ tab'[c].ipc[k] = "idle"
    /\ LockHeld(tab[c].ilock[k], tab[c].inow[k])

\* C26: a refused lock gives status ok, initialized and ready, and changes
\* neither the storage nor the in-memory snapshot nor the remote rows.
C26_LockRefusedFrame ==
  [][\A c \in Ctx :
       LockRefusedStep(c) =>
         /\ tab'[c].cloudStatus = "ok"
         /\ tab'[c].initializedRef /\ tab'[c].cloudSyncReady
         /\ tab'[c].exit = "refused"
         /\ tab'[c].cloudMode = tab[c].cloudMode
         /\ ls' = ls
         /\ getSnapshot(tab'[c]) = getSnapshot(tab[c])
         /\ remote' = remote]_vars

\* a context was refused the lock another context still holds
C26_Witness ==
  \E c \in Ctx : \E d \in Ctx \ {c} :
    /\ tab[c].exit = "refused" /\ tab[c].cloudStatus = "ok" /\ tab[c].initializedRef
    /\ IsSome(ls.lock)
    /\ \E j \in CallSlot : tab[d].ipc[j] \in {"pull", "pushNet", "pushUpsert", "sub", "seed"}

(***************************************************************************)
(* C27: pushing the pending change takes priority over pulling.  An        *)
(* initForSession that acquires the lock with a snapshot in the buffer     *)
(* pushes it and does not pull; and in no interleaving does a pulled       *)
(* remote snapshot replace the local state while the buffer holds a        *)
(* snapshot, a snapshot buffered while the pull was awaited included.      *)
(***************************************************************************)
\* the step in which the pull of c is answered and replaceAllData runs
PullReplacesLocal(c) == \E k \in CallSlot : tab[c].ipc[k] = "pull" /\ tab'[c].ipc[k] = "sub"

\* C27: a buffered snapshot is pushed instead of pulling, and no pull
\* replaces the local state while the buffer holds a snapshot.
C27_PendingBeforePull ==
  [][\A c \in Ctx :
       /\ \A k \in CallSlot :
            (tab[c].ipc[k] = "lock" /\ tab'[c].ipc[k] # "lock" /\ IsSome(ls'.pend)
               /\ ~LockHeld(tab[c].ilock[k], tab[c].inow[k]))
              => tab'[c].ipc[k] = "pushNet" /\ tab'[c].isnap[k] = ls'.pend
       /\ PullReplacesLocal(c) => ls.pend = None /\ ls'.pend = None]_vars

(***************************************************************************)
(* C28: an initForSession that holds the lock and finds the buffer empty   *)
(* pulls the remote row.                                                   *)
(***************************************************************************)
\* the step in which the pull of c finds no row and the seed is issued
PullSeeds(c, k) == tab[c].ipc[k] = "pull" /\ tab'[c].ipc[k] = "seed"

\* the step in which call k of initForSession of c returns after a pull or a
\* seed
InitReturnsComplete(c, k) ==
  /\ tab[c].ipc[k] \in {"sub", "seed"} /\ tab'[c].ipc[k] = "idle"
  /\ tab'[c].exit \in {"pulled", "seeded"}

\* the security object after the authentication timestamp is set to t
stampedSecurity(old, t) ==
  << [biometricEnabled |-> IF IsSome(old) THEN Get(old).biometricEnabled ELSE FALSE,
      lastAuthTimestamp |-> << t >>] >>

\* when the pull is answered with a row, the in-memory state and the durable
\* state are the row's document; when it is answered with no row, the local
\* snapshot is what the seed carries and the local state is as it was
PullAnswered(c) ==
  /\ PullReplacesLocal(c) =>
       LET cloud == Get(remote[session])
       IN /\ tab'[c].welcomeSeen = OrElse(cloud.welcomeSeen, FALSE)
          /\ tab'[c].security = << OrElse(cloud.security, defaultSecurity) >>
          /\ tab'[c].rev = cloud.rev
          /\ ls'.state = << cloud >>
  /\ \A k \in CallSlot :
       PullSeeds(c, k) =>
         /\ remote[session] = None
         /\ tab'[c].isnap[k] = << getSnapshot(tab[c]) >>
         /\ getSnapshot(tab'[c]) = getSnapshot(tab[c]) /\ ls'.state = ls.state

\* C28 as stated: the pull replaces the local state with the remote document,
\* the seed pushes the local snapshot, both end with the status ok, and the
\* seeding initForSession returns with the local state as it was.
C28_PullReplacesSeedKeeps ==
  [][\A c \in Ctx, k \in CallSlot :
       /\ PullAnswered(c)
       /\ InitReturnsComplete(c, k) =>
            /\ tab'[c].cloudStatus = "ok"
            /\ tab'[c].exit = "seeded" =>
                 /\ remote'[session] = tab[c].isnap[k]
                 /\ getSnapshot(tab'[c]) = getSnapshot(tab[c])
                 /\ ls'.state = ls.state]_vars

\* C28 amended: as above, except that initForSession, after the pull as
\* after the seed, returns with security.lastAuthTimestamp set to the current
\* time in memory and in the durable state, the rest of the local state as it
\* was.
C28_PullReplacesSeedKeepsButStamp ==
  [][\A c \in Ctx, k \in CallSlot :
       /\ PullAnswered(c)
       /\ InitReturnsComplete(c, k) =>
            /\ tab'[c].cloudStatus = "ok"
            /\ tab'[c].welcomeSeen = tab[c].welcomeSeen
            /\ tab'[c].security = stampedSecurity(tab[c].security, now)
            /\ StoredDoc(ls'.state) = << [getSnapshot(tab[c]) EXCEPT
                                 !.security = stampedSecurity(tab[c].security, now)] >>
            /\ tab'[c].exit = "seeded" => remote'[session] = tab[c].isnap[k]]_vars

\* an initForSession has seeded an empty remote row and returned
C28_Witness ==
  \E c \in Ctx :
    /\ tab[c].exit = "seeded" /\ tab[c].cloudStatus = "ok"
    /\ session # "none" /\ IsSome(remote[session])
    /\ IsSome(tab[c].security) /\ IsSome(Get(tab[c].security).lastAuthTimestamp)

(***************************************************************************)
(* The retry timer on its own: one tick of the interval callback (lines    *)
(* 431-446) in a context with any cloudMode, initializedRef and status,    *)
(* over an empty or a filled buffer, followed by the push it starts.       *)
(***************************************************************************)
InitRetry ==
  /\ online \in BOOLEAN
  /\ now = 0
  /\ session = "anon"
  /\ remote = noRows
  /\ ls \in {emptyStorage} \cup {setPendingSnapshot(emptyStorage, d) : d \in BufferDocs}
  /\ \E mode \in CloudMode, initialized \in BOOLEAN, status \in CloudStatus :
       tab = [c \in Ctx |->
                IF c = "tabA"
                THEN [hydrate(emptyStorage) EXCEPT
                        !.cloudMode = mode, !.initializedRef = initialized,
                        !.initWanted = 0, !.cloudStatus = status]
                ELSE closed(emptyStorage)]
  /\ used = 0
  /\ limit = 0
  /\ ret = noCall

\* the interval callback runs, guards included
RetryTimerTick ==
  /\ ret.op = "none"
  /\ tab' = [tab EXCEPT !["tabA"] = retryTick(@, ls)]
  /\ ret' = called("retryTick", None, None)
  /\ UNCHANGED << online, now, session, remote, ls, used, limit >>

NextRetry ==
  \/ RetryTimerTick
  \/ PushNet("tabA", << "retry", 1 >>)
  \/ PushDone("tabA", << "retry", 1 >>)

SpecRetry == InitRetry /\ [][NextRetry]_vars

\* C29: on a tick of the retry timer pushSnapshot is invoked if and only if
\* cloudMode is cloud, the gate is initialized, the status is exactly error and
\* the buffer holds a snapshot; the snapshot pushed is the buffered one; and a
\* tick that invokes no push (status offline or any other) changes nothing.
C29_RetryTickPushesIffError ==
  [][(ret.op = "none" /\ ret'.op = "retryTick") =>
       LET before == tab["tabA"]
           after == tab'["tabA"]
           wanted == /\ before.cloudMode = "cloud" /\ before.initializedRef
                     /\ before.cloudStatus = "error" /\ IsSome(ls.pend)
           pushed == after.ppc[<< "retry", 1 >>] = "net"
       IN /\ pushed <=> wanted
          /\ pushed => after = [before EXCEPT !.ppc[<< "retry", 1 >>] = "net",
                                              !.psnap[<< "retry", 1 >>] = ls.pend]
          /\ ~pushed => tab' = tab
          /\ ls' = ls /\ remote' = remote /\ online' = online /\ session' = session]_vars

\* the timer has ticked in a context showing error over a filled buffer, and
\* its push of the buffered snapshot has started
C29_Witness ==
  /\ ret.op = "retryTick"
  /\ tab["tabA"].ppc[<< "retry", 1 >>] = "net" /\ tab["tabA"].cloudStatus = "error"
  /\ IsSome(ls.pend) /\ tab["tabA"].psnap[<< "retry", 1 >>] = ls.pend

(***************************************************************************)
(* The failure classifier on its own: isNetworkOrServerError (lines 24-41) *)
(* applied to failure signals with each message pattern, an unrelated      *)
(* message or none, and a status or statusCode absent, numeric or textual, *)
(* with navigator.onLine true or false.                                    *)
(***************************************************************************)
\* "gateway timeout" in a text is also an occurrence of "timeout"
ClassifyMessages ==
  {{}, {"permission denied"}, {"gateway timeout", "timeout"}} \cup
  {{m} : m \in {"failed to fetch", "err_name_not_resolved", "networkerror",
                "internal server error", "bad gateway", "service unavailable",
                "timeout", "econnrefused", "econnreset"}}

ClassifyStatuses ==
  {None, Str(503)} \cup {Num(n) : n \in {0, 400, 499, 500, 503, 599, 600}}

ClassifySignals ==
  [message : ClassifyMessages, status : ClassifyStatuses,
   statusCode : {None, Num(400), Num(503)}]

InitClassify ==
  /\ online \in BOOLEAN
  /\ now = 0
  /\ session = "anon"
  /\ remote = noRows
  /\ ls = emptyStorage
  /\ tab = [c \in Ctx |-> closed(emptyStorage)]
  /\ used = 0
  /\ limit = 0
  /\ ret = noCall

Classify ==
  /\ ret.op = "none"
  /\ \E signal \in ClassifySignals :
       ret' = called("classified", Some(signal), Some(isNetworkOrServerError(errOf(signal), online)))
  /\ UNCHANGED << online, now, session, remote, ls, tab, used, limit >>

NextClassify == Classify

SpecClassify == InitClassify /\ [][NextClassify]_vars

\* the status the classifier looks at is a number in [500, 600)
ServerStatus(signal) ==
  LET given == IF signal.status # None THEN signal.status ELSE signal.statusCode
  IN given # None /\ Get(given).number /\ Get(given).n \in 500..599

NetworkPatterns ==
  {"failed to fetch", "err_name_not_resolved", "networkerror", "timeout",
   "econnrefused", "econnreset"}

ServerPatterns ==
  {"internal server error", "bad gateway", "service unavailable", "gateway timeout"}

\* C30 as stated: the classifier answers transient exactly when the browser is
\* offline, or the message matches a network-failure pattern (fetch failure,
\* DNS resolution failure, generic network error, timeout, connection refused
\* or reset), or the status is an integer in [500, 600); every other failure
\* is permanent.
C30_TransientExactlyNetworkOr5xx ==
  ret.op = "classified" =>
    LET signal == Get(ret.arg)
    IN Get(ret.result) <=> \/ ~online
                           \/ signal.message \cap NetworkPatterns # {}
                           \/ ServerStatus(signal)

\* C30 amended: the message patterns that give transient also include the
\* server-failure texts "internal server error", "bad gateway", "service
\* unavailable" and "gateway timeout".
C30_TransientExactlyNetworkServerOr5xx ==
  ret.op = "classified" =>
    LET signal == Get(ret.arg)
    IN Get(ret.result) <=> \/ ~online
                           \/ signal.message \cap (NetworkPatterns \cup ServerPatterns) # {}
                           \/ ServerStatus(signal)

\* a failure with status 499 and an unrelated message, classified permanent
\* with the browser online
C30_Witness ==
  /\ ret.op = "classified" /\ online
  /\ Get(ret.arg).message = {"permission denied"} /\ Get(ret.arg).status = Num(499)
  /\ Get(ret.result) = FALSE

(***************************************************************************)
(* C31: the network listener.                                              *)
(***************************************************************************)
\* after the step context c shows offline and the buffer holds its snapshot
BufferedOffline(c) ==
  /\ tab'[c].cloudStatus = "offline"
  /\ ls'.pend = << getSnapshot(tab[c]) >>

\* C31: the listener of a context that handles a transition to offline sets
\* the status offline and writes the in-memory snapshot to the buffer in the
\* same step; the listener that handles a transition to online with a
\* snapshot buffered starts a push of that snapshot when the context is in
\* cloud mode, unless its initForSession is about to push the buffer itself.
C31_ListenerBuffersAndDrains ==
  [][\A c \in Ctx :
       /\ HandlesNetworkStep(c, FALSE) => BufferedOffline(c)
       /\ (/\ HandlesNetworkStep(c, TRUE) /\ IsSome(ls.pend)
           /\ tab[c].cloudMode = "cloud" /\ ~InitWillDrain(c))
            => DrainStartsStep(c)]_vars

(***************************************************************************)
(* The no-session branch of initForSession on its own (lines 214-287):     *)
(* getSession() answers with no session in a context whose store shows any *)
(* cloudMode and user, over a storage with or without the was-             *)
(* authenticated breadcrumb, a buffered snapshot, a stored state and the   *)
(* onboarding-seen key.  (getSession() also answers with no session when   *)
(* it times out and no stored session is readable, lines 179-192.)         *)
(***************************************************************************)
InitLogout ==
  /\ online \in BOOLEAN
  /\ now = 0
  /\ session = "none"
  /\ remote = noRows
  /\ \E wasAuth \in BOOLEAN, seen \in BOOLEAN,
        pend \in {None, Some(cloudDoc)}, state \in {None, Some(cloudDoc)},
        mode \in CloudMode, email \in BOOLEAN, dev \in BOOLEAN, full \in BOOLEAN :
       /\ ls = [emptyStorage EXCEPT !.wasAuth = wasAuth, !.seen = seen,
                                    !.pend = pend, !.state = state, !.full = full]
       /\ tab = [c \in Ctx |->
                   IF c = "tabA"
                   THEN [hydrate(ls) EXCEPT !.dev = dev,
                                            !.cloudMode = mode, !.userEmail = email,
                                            !.initWanted = 0, !.ipc[1] = "getSession"]
                   ELSE closed(emptyStorage)]
  /\ used = 0
  /\ limit = 0
  /\ ret = noCall

\* the client library, initialized again after the bundle was replaced, has
\* read the stored session (the case lines 227-230 describe); the handler of
\* lines 452-579 acts on SIGNED_IN and SIGNED_OUT only
SessionRestored ==
  /\ session = "none" /\ tab["tabA"].hmrWait > 0
  /\ session' = "auth"
  /\ UNCHANGED << online, now, remote, ls, tab, used, limit, ret >>

NextLogout ==
  \/ InitGetSession("tabA")
  \/ InitAnonSignIn("tabA")
  \/ HmrRetry("tabA")
  \/ SessionRestored
  \/ InitNetStatus("tabA")

SpecLogout == InitLogout /\ [][NextLogout]_vars

\* the step in which initForSession of c learns that there is no session
NoSessionStep(c) ==
  /\ \E k \in CallSlot : tab[c].ipc[k] = "getSession" /\ tab'[c].ipc[k] # "getSession"
  /\ session = "none"

\* the store of c shows a signed-in user: cloudMode cloud with an email
ShowsUser(c) == tab[c].cloudMode = "cloud" /\ tab[c].userEmail

\* after the step the buffer is empty, the onboarding-seen key is removed and
\* memory and the Durable Local Store hold the default document (the store
\* holds nothing when the storage is full)
LocalDataWiped(c) ==
  /\ ls'.pend = None /\ ~ls'.seen
  /\ StoredDoc(ls'.state) = IF ls.full THEN None
                            ELSE << Doc(<< FALSE >>, << defaultSecurity >>, 0) >>
  /\ getSnapshot(tab'[c]) = Doc(<< FALSE >>, << defaultSecurity >>, 0)

LocalDataUntouched(c) ==
  /\ ls'.pend = ls.pend /\ ls'.seen = ls.seen /\ ls'.state = ls.state
  /\ getSnapshot(tab'[c]) = getSnapshot(tab[c])

\* C32 as stated: with no session, a store that shows a signed-in user is
\* wiped (buffer, Durable Local Store, in-memory state, onboarding-seen flag)
\* and any other store keeps its local and buffered data.
C32_NoSessionWipesSignedInStore ==
  [][\A c \in Ctx :
       NoSessionStep(c) =>
         IF ShowsUser(c) THEN LocalDataWiped(c) ELSE LocalDataUntouched(c)]_vars

\* after the step nothing of context c or of storage has changed but the call
\* having returned, and one more lookup of the session is due in 500 ms
RetryScheduled(c) ==
  /\ ls' = ls
  /\ \E k \in CallSlot :
       tab'[c] = [tab[c] EXCEPT !.ipc[k] = "idle", !.exit = tab'[c].exit,
                                !.hmrWait = @ + 1]

\* C32 amended: with the was-authenticated breadcrumb present the branch is
\* a session expiry (flag set, guest mode, idle) and local and buffered data
\* are kept.  Without it, a store that shows a signed-in user is left as it
\* is in a development build, which looks the session up again 500 ms later,
\* and is wiped in a production build; any other store keeps its local and
\* buffered data.
C32_NoSessionWipesWithoutBreadcrumb ==
  [][\A c \in Ctx :
       NoSessionStep(c) =>
         IF ls.wasAuth
         THEN /\ LocalDataUntouched(c) /\ tab'[c].sessionExpired
              /\ tab'[c].cloudMode = "guest" /\ tab'[c].cloudStatus = "idle"
         ELSE IF ShowsUser(c) /\ tab[c].dev THEN RetryScheduled(c)
         ELSE IF ShowsUser(c) THEN LocalDataWiped(c)
         ELSE LocalDataUntouched(c)]_vars

\* a production build whose store showed a signed-in user over a filled
\* buffer has been wiped by initForSession and is asking for an anonymous
\* session
C32_Witness ==
  /\ ~tab["tabA"].dev
  /\ tab["tabA"].ipc[1] = "anon" /\ tab["tabA"].cloudMode = "cloud" /\ ~tab["tabA"].userEmail
  /\ session = "none" /\ ~ls.wasAuth /\ ~ls.full /\ ls.pend = None
  /\ StoredDoc(ls.state) = << Doc(<< FALSE >>, << defaultSecurity >>, 0) >>

(***************************************************************************)
(* The SIGNED_IN handler with an anonymous session on its own (lines       *)
(* 518-531): the event reaches a context with any cloudMode, initializedRef*)
(* and status, over a storage with or without the OAuth-transition marker, *)
(* the onboarding-logout key and a buffered snapshot, with or without an   *)
(* initForSession call already scheduled; the deferred initForSession then *)
(* starts.                                                                 *)
(***************************************************************************)
InitAnonEvent ==
  /\ online \in BOOLEAN
  /\ now = 0
  /\ session = "anon"
  /\ remote = noRows
  /\ \E oauth \in {None, Some(0)}, loggedOut \in BOOLEAN, pend \in {None, Some(cloudDoc)} :
       ls = [emptyStorage EXCEPT !.oauth = oauth, !.loggedOut = loggedOut, !.pend = pend]
  /\ \E mode \in CloudMode, initialized \in BOOLEAN, status \in CloudStatus, wanted \in {0, 1} :
       tab = [c \in Ctx |->
                IF c = "tabA"
                THEN [hydrate(emptyStorage) EXCEPT
                        !.cloudMode = mode, !.initializedRef = initialized,
                        !.cloudSyncReady = initialized,
                        !.initWanted = wanted, !.cloudStatus = status]
                ELSE closed(emptyStorage)]
  /\ used = 0
  /\ limit = 0
  /\ ret = noCall

\* onAuthStateChange delivers SIGNED_IN with an anonymous session
AnonSignedInEvent ==
  /\ ret.op = "none"
  /\ tab' = [c \in Ctx |-> onSignedInAnonymous(tab[c])]
  /\ ls' = onSignedInMarkers(ls)
  /\ ret' = called("signedInAnon", ls.oauth, None)
  /\ UNCHANGED << online, now, session, remote, used, limit >>

NextAnonEvent ==
  \/ AnonSignedInEvent
  \/ InitNetStatus("tabA")

SpecAnonEvent == InitAnonEvent /\ [][NextAnonEvent]_vars

AnonSignedInStep == ret.op = "none" /\ ret'.op = "signedInAnon"

\* the handler marks the context uninitialized and schedules initForSession
ReconcileScheduled(c) ==
  tab'[c] = [tab[c] EXCEPT !.initializedRef = FALSE, !.initWanted = @ + 1]

\* C33 as stated: an anonymous SIGNED_IN changes nothing and schedules nothing
\* in a context that is initialized and in cloud mode; in any other context it
\* marks the context uninitialized and schedules initForSession.
C33_AnonSignedInNoOpWhenCloud ==
  [][AnonSignedInStep =>
       /\ UNCHANGED << online, session, remote >>
       /\ IF tab["tabA"].initializedRef /\ tab["tabA"].cloudMode = "cloud"
          THEN tab' = tab /\ ls' = ls
          ELSE ReconcileScheduled("tabA")]_vars

\* C33 amended: in both cases the handler first removes the OAuth-transition
\* marker and the onboarding-logout key from storage; nothing else changes in
\* the initialized cloud-mode context.
C33_AnonSignedInOnlyClearsMarkers ==
  [][AnonSignedInStep =>
       /\ UNCHANGED << online, session, remote >>
       /\ ls' = [ls EXCEPT !.oauth = None, !.loggedOut = FALSE]
       /\ IF tab["tabA"].initializedRef /\ tab["tabA"].cloudMode = "cloud"
          THEN tab' = tab
          ELSE ReconcileScheduled("tabA")]_vars

\* the event reached an initialized cloud-mode context while the OAuth marker
\* was set: nothing is scheduled and the marker is gone
C33_Witness ==
  /\ ret.op = "signedInAnon" /\ IsSome(ret.arg) /\ ls.oauth = None
  /\ tab["tabA"].initializedRef /\ tab["tabA"].cloudMode = "cloud"
  /\ tab["tabA"].initWanted = 0 /\ NoCall("tabA")

(***************************************************************************)
(* The SIGNED_IN handler with an authenticated session on its own (lines   *)
(* 533-578), its deferred task step by step: the RevenueCat migration      *)
(* (awaited, failures caught), migrateGuestTokenToUser() (not awaited),    *)
(* initForSession (awaited), then the cleanup of the previous anonymous    *)
(* user when 'app.previousAnonUserId' is set (awaited, failures caught).   *)
(* ret.op is the position of the task, ret.arg is set once the push-token  *)
(* migration was started, ret.result is the answer of the cleanup call.    *)
(***************************************************************************)
InitAuthEvent ==
  /\ online \in BOOLEAN
  /\ now = 0
  /\ session = "auth"
  /\ remote \in {noRows, existingAccount}
  /\ \E wasAuth \in BOOLEAN, prevAnon \in BOOLEAN, pend \in {None, Some(cloudDoc)},
        full \in BOOLEAN :
       ls = [emptyStorage EXCEPT !.wasAuth = wasAuth, !.prevAnon = prevAnon, !.pend = pend,
                                 !.full = full]
  /\ \E expired \in BOOLEAN, initialized \in BOOLEAN, mounting \in {0, 1} :
       tab = [c \in Ctx |->
                IF c = "tabA"
                THEN [hydrate(emptyStorage) EXCEPT
                        !.sessionExpired = expired, !.initializedRef = initialized,
                        !.cloudSyncReady = initialized, !.initWanted = mounting]
                ELSE closed(emptyStorage)]
  /\ used = 0
  /\ limit = 0
  /\ ret = noCall

taskAt(op) == [ret EXCEPT !.op = op]

\* lines 518-542: the handler up to setTimeout
AuthSignedInEvent ==
  /\ ret.op = "none"
  /\ tab' = [c \in Ctx |-> onSignedInAuthenticatedNow(tab[c])]
  /\ ls' = onSignedInAuthenticatedStorage(storeToken(ls))
  /\ ret' = taskAt("authTimer")
  /\ UNCHANGED << online, now, session, remote, used, limit >>

\* lines 542-554: the timer fires and the RevenueCat migration is awaited
AuthTaskMigrate ==
  /\ ret.op = "authTimer" /\ betweenTurns("tabA")
  /\ ret' = taskAt("authMigrate")
  /\ UNCHANGED << online, now, session, remote, ls, tab, used, limit >>

\* lines 555-565: the migration has settled (its failure is caught), the
\* push-token migration is started and initForSession is called
AuthTaskReconcile ==
  /\ ret.op = "authMigrate" /\ betweenTurns("tabA")
  /\ tab' = [tab EXCEPT !["tabA"].taskPc = "wanted"]
  /\ ret' = [taskAt("authReconcile") EXCEPT !.arg = Some(TRUE)]
  /\ UNCHANGED << online, now, session, remote, ls, used, limit >>

\* line 565: the initForSession call the task awaits has returned
authReconciled == ret.op = "authReconcile" /\ tab["tabA"].taskPc = "returned"

\* lines 567-570: the task goes on in the turn in which its call returned;
\* the cleanup is requested when the key of the previous anonymous user is set
AuthTaskCleanup ==
  /\ authReconciled
  /\ tab' = [tab EXCEPT !["tabA"].taskPc = "none"]
  /\ ls' = [ls EXCEPT !.prevAnon = FALSE]
  /\ ret' = taskAt(IF ls.prevAnon THEN "authCleanup" ELSE "authDone")
  /\ UNCHANGED << online, now, session, remote, used, limit >>

\* lines 570-575: the cleanup call has settled, with success or a failure
AuthTaskCleanupDone ==
  /\ ret.op = "authCleanup" /\ betweenTurns("tabA")
  /\ \E answer \in {"ok", "failed"} : ret' = [taskAt("authDone") EXCEPT !.result = Some(answer)]
  /\ UNCHANGED << online, now, session, remote, ls, tab, used, limit >>

NextAuthEvent ==
  \/ AuthSignedInEvent
  \/ AuthTaskMigrate
  \/ AuthTaskReconcile
  \/ AuthTaskCleanup
  \/ AuthTaskCleanupDone
  \/ InitNetStatus("tabA")
  \/ InitGetSession("tabA")
  \/ InitNetRecheck("tabA")
  \/ InitAcquireLock("tabA")
  \/ InitPushNet("tabA")
  \/ InitPushDone("tabA")
  \/ InitPullDone("tabA")
  \/ InitSubscriptionDone("tabA")
  \/ InitSeedDone("tabA")

SpecAuthEvent == InitAuthEvent /\ [][NextAuthEvent]_vars

AuthHandlerStep == ret.op = "none" /\ ret'.op = "authTimer"
CleanupRequestedStep == ret.op # "authCleanup" /\ ret'.op = "authCleanup"
CleanupSettlesStep == ret.op = "authCleanup" /\ ret'.op = "authDone"

\* in this step the task calls initForSession
ReconcileStartsStep == ret.op # "authReconcile" /\ ret'.op = "authReconcile"

\* the initForSession call of the task has started and has returned without
\* throwing: it answered from the offline start (no slot taken), or the slot
\* it ran in is free again
ReconcileReturned ==
  /\ ret.op = "authReconcile" /\ tab["tabA"].taskPc \notin {"wanted", "threw"}
  /\ tab["tabA"].taskSlot = 0 \/ tab["tabA"].ipc[tab["tabA"].taskSlot] = "idle"

\* the data and the position of every initForSession call of the context
gateOf(t) ==
  [welcomeSeen |-> t.welcomeSeen, security |-> t.security, cloudMode |-> t.cloudMode,
   cloudStatus |-> t.cloudStatus, cloudSyncReady |-> t.cloudSyncReady,
   sessionExpired |-> t.sessionExpired, userEmail |-> t.userEmail,
   initializedRef |-> t.initializedRef, initWanted |-> t.initWanted, ipc |-> t.ipc]

\* C34: on SIGNED_IN with an authenticated session the handler itself clears
\* the session-expired flag and the was-authenticated breadcrumbs and marks the
\* gate uninitialized, with no asynchronous work started yet; the migration is
\* started before reconcile is called, the cleanup of the previous anonymous
\* user is requested only after the reconcile the task called has returned
\* (whatever other reconcile is still running), and neither the request nor
\* the cleanup settling (also with a failure) changes anything of the gate.
C34_SignedInOrder ==
  [][/\ AuthHandlerStep =>
          /\ ~tab'["tabA"].sessionExpired
          /\ ~tab'["tabA"].initializedRef
          /\ ~ls'.wasAuth
          /\ tab'["tabA"].ipc = tab["tabA"].ipc
          /\ tab'["tabA"].initWanted = tab["tabA"].initWanted
          /\ tab'["tabA"].taskPc = "none"
          /\ ret'.arg = None
     /\ ReconcileStartsStep => ret.op = "authMigrate" /\ ret'.arg = Some(TRUE)
     /\ CleanupRequestedStep =>
          /\ ReconcileReturned /\ ls.prevAnon
          /\ gateOf(tab'["tabA"]) = gateOf(tab["tabA"])
          /\ ls' = [ls EXCEPT !.prevAnon = FALSE]
     /\ CleanupSettlesStep => tab' = tab /\ ls' = ls]_vars

\* the cleanup was requested after the reconcile of the task had returned
\* while the reconcile called on mount was still running, and it failed
C34_Witness ==
  /\ ret.op = "authDone" /\ ret.result = Some("failed") /\ ret.arg = Some(TRUE)
  /\ ~NoCall("tabA") /\ tab["tabA"].taskPc = "none"
  /\ ~tab["tabA"].sessionExpired

\* a context resting in guest mode with status idle, no reconcile running or due
GuestIdle(c) ==
  /\ tab[c].open /\ tab[c].cloudMode = "guest" /\ tab[c].cloudStatus = "idle"
  /\ NoCall(c) /\ tab[c].initWanted = 0 /\ tab[c].anonWait = 0
  /\ tab[c].hmrWait = 0 /\ tab[c].authq = << >>
\* a connectivity event (the listener of c handles it), a clock tick or a
\* local mutation: an event that is not a sign-in or a sign-out
NoIdentityEventStep(c) ==
  /\ session' = session
  /\ used' # used \/ HandlesNetworkStep(c, TRUE) \/ HandlesNetworkStep(c, FALSE)
BecomesIdleStep(c) == tab[c].cloudStatus # "idle" /\ tab'[c].cloudStatus = "idle"

\* C35: the status becomes idle only together with guest mode, and a context
\* resting idle in guest mode stays idle through every connectivity event, timer
\* tick and local mutation, until a sign-in or sign-out event arrives.
C35_GuestIdleStaysIdle ==
  [][\A c \in Ctx :
       /\ BecomesIdleStep(c) => tab'[c].cloudMode = "guest"
       /\ (GuestIdle(c) /\ NoIdentityEventStep(c)) => tab'[c].cloudStatus = "idle"]_vars

\* the positions of initForSession between acquireSyncLock returning true (line
\* 321) and releaseSyncLock in the finally block (line 393)
LockedSection == {"pushNet", "pushUpsert", "pull", "sub", "seed"}
InLockedSection(c) == tab[c].open /\ \E k \in CallSlot : tab[c].ipc[k] \in LockedSection
\* a call of c leaves the section while the record in storage was written by
\* another call (the call wrote its own clock reading, kept in inow while it
\* is inside the section)
LeavesOverForeignLock(c) ==
  \E k \in CallSlot :
    /\ tab[c].open /\ tab[c].ipc[k] \in LockedSection /\ tab'[c].ipc[k] \notin LockedSection
    /\ IsSome(ls.lock) /\ Get(ls.lock) # tab[c].inow[k]

\* c enters the section over a lock record it found in storage
ReclaimsLock(c) ==
  \E k \in CallSlot :
    /\ tab[c].ipc[k] = "lock" /\ IsSome(tab[c].ilock[k])
    /\ tab'[c].open /\ tab'[c].ipc[k] \in LockedSection

\* C36: a context that finds the lock record of another context never enters
\* the lock-protected section while that context is still inside it, and a
\* context leaving the section never removes a lock record that another context
\* wrote, also when the first holder stays longer than the timeout and a second
\* context has taken the expired lock.
C36_LockOwnership ==
  [][\A c \in Ctx :
       /\ ReclaimsLock(c) => \A d \in Ctx \ {c} : ~InLockedSection(d)
       /\ LeavesOverForeignLock(c) => ls'.lock = ls.lock]_vars

(***************************************************************************)
(* One signed-in context with connectivity events, local mutations and     *)
(* remote failures only (no sign-in or sign-out), long enough for a push   *)
(* to be overtaken by a mutation and a second push.                        *)
(***************************************************************************)
MaxOverlapEvents == 3

InitOverlap ==
  /\ online = TRUE
  /\ now = 0
  /\ session \in Session
  /\ remote \in {noRows, existingAccount}
  /\ ls = emptyStorage
  /\ tab = [c \in Ctx |-> IF c = "tabA" THEN hydrate(emptyStorage) ELSE closed(emptyStorage)]
  /\ used = 0
  /\ limit = MaxOverlapEvents
  /\ ret = noCall

NextOverlap ==
  \/ Engine("tabA")
  \/ GoOnline
  \/ GoOffline

SpecOverlap == InitOverlap /\ [][NextOverlap]_vars

\* the Pending-Change Buffer holds a snapshot taken after s was
BuffersOther(s) == IsSome(ls.pend) /\ Get(ls.pend).rev > s.rev

\* in this step local data is wiped on logout: the SIGNED_OUT handler of a
\* context runs its wipe (lines 473-477), or initForSession finds no session
\* in a store that shows a signed-in user (lines 247-251)
LogoutWipeStep ==
  \E c \in Ctx :
    \/ /\ tab[c].authq # << >> /\ Head(tab[c].authq).event = "SIGNED_OUT"
       /\ tab'[c].authq = Tail(tab[c].authq)
       /\ tab'[c].anonWait = tab[c].anonWait + 1
    \/ \E k \in CallSlot :
         /\ tab[c].ipc[k] = "getSession" /\ tab'[c].ipc[k] = "anon"
         /\ tab[c].cloudMode = "cloud" /\ tab[c].userEmail

\* C9 as stated, with the wipes of the two logout paths left aside (the claim
\* allows no identity event either, so that a run that violates this formula
\* violates the claim): the buffer goes from non-empty to empty only in a step
\* that wipes local data on logout or that confirms the delivery of the
\* buffered snapshot or of one taken after it.
C9_ClearedOnlyByDeliveryOrLogout ==
  [][(ls.pend # << >> /\ ls'.pend = << >>)
       => \/ LogoutWipeStep
          \/ \E c \in Ctx : \E s \in PushesInFlight(c) :
               PushConfirmed(c, s) /\ ~BuffersOther(s)]_vars

\* C37: when the upsert of snapshot s is confirmed while the buffer holds a
\* different snapshot, written while the upsert was in flight, that snapshot is
\* still buffered after the push of s has returned.
C37_ClearOnSuccessIsExact ==
  [][\A c \in Ctx : \A s \in PushesInFlight(c) :
       (PushConfirmed(c, s) /\ BuffersOther(s)) => ls'.pend = ls.pend]_vars

\* a push of c returns without its upsert confirmed: deferred at the
\* connectivity check or failed
PushDeferredOrFailed(c, s) ==
  \/ \E p \in DOMAIN tab[c].ppc :
       /\ tab[c].psnap[p] = << s >> /\ tab[c].ppc[p] \in {"net", "upsert"}
       /\ tab'[c].ppc[p] = "idle" /\ remote' = remote
  \/ \E k \in CallSlot :
       /\ tab[c].isnap[k] = << s >> /\ tab[c].ipc[k] \in {"pushNet", "pushUpsert"}
       /\ tab'[c].ipc[k] = "idle" /\ remote' = remote

\* the upsert of a push of the sync engine is confirmed in this step
EnginePushLands == \E c \in Ctx : \E s \in PushesInFlight(c) : PushConfirmed(c, s)

\* C38: a push that fails or is deferred never replaces a newer buffered
\* snapshot with the older one it was carrying, and no push of the engine
\* takes the remote authority back from a newer snapshot to an older one.
C38_BufferKeepsLatest ==
  [][/\ \A c \in Ctx : \A s \in PushesInFlight(c) :
          (PushDeferredOrFailed(c, s) /\ BuffersOther(s)) => ls'.pend = ls.pend
     /\ \A i \in DOMAIN remote :
          (EnginePushLands /\ IsSome(remote[i]) /\ IsSome(remote'[i]))
            => Get(remote'[i]).rev >= Get(remote[i]).rev]_vars

\* context c resolved cloud mode from a cached session while offline and has
\* nothing else going on since; the device is reachable again
OnlineAfterOfflineStart(c) ==
  /\ online /\ tab[c].open /\ tab[c].exit = "offlineStart"
  /\ tab[c].cloudMode = "cloud" /\ tab[c].initializedRef
  /\ tab[c].cloudStatus = "offline"

\* C39: after an offline start in cloud mode, once the device is online the
\* status leaves offline (a reconcile or a push has run) unless the device
\* drops offline again first; no local mutation and no authentication event is
\* needed for it.  Stated of the states in which further events are still
\* possible.
C39_OfflineStartRecovers ==
  (OnlineAfterOfflineStart("tabA") /\ used < limit)
    ~> (~online \/ tab["tabA"].cloudStatus # "offline" \/ tab["tabA"].exit # "offlineStart")

\* a call of initForSession by context c returns in this step
InitForSessionReturns(c) ==
  /\ tab[c].open /\ tab'[c].open
  /\ \/ OfflineStartStep(c)
     \/ \E k \in CallSlot : tab[c].ipc[k] # "idle" /\ tab'[c].ipc[k] = "idle"

\* C40: every call of initForSession that returns in cloud mode with the gate
\* initialized has set cloudSyncReady by then, whatever path it took.
C40_ReturnsReady ==
  [][\A c \in Ctx :
       (InitForSessionReturns(c) /\ tab'[c].cloudMode = "cloud" /\ tab'[c].initializedRef)
         => tab'[c].cloudSyncReady]_vars

====
